---- MODULE Spec2Model ----
(***************************************************************************)
(* Model of the static code analyzer (app/services/code_analyzer.py) and   *)
(* of the callers that share one CodeAnalyzer instance.                    *)
(*                                                                         *)
(* Text (str) is a sequence of one-character strings.  A parsed program is *)
(* a sequence of syntax-tree nodes in document order, each naming its      *)
(* parent; ast.walk is the breadth-first traversal the library performs.   *)
(* Python lists are objects on a heap, so that aliasing of the instance    *)
(* attribute self.suggestions and of the returned list is visible.         *)
(***************************************************************************)
EXTENDS Integers, Sequences, FiniteSets, TLC

----------------------------------------------------------------------------
(* Characters and str operations                                           *)

LowerLetters ==
    {"a","b","c","d","e","f","g","h","i","j","k","l","m","n","o","p","q","r","s","t","u","v","w","x","y","z"}

UpperLetters ==
    {"A","B","C","D","E","F","G","H","I","J","K","L","M","N","O","P","Q","R","S","T","U","V","W","X","Y","Z"}

Digits ==
    {"0","1","2","3","4","5","6","7","8","9"}

DigitText ==
    <<"0","1","2","3","4","5","6","7","8","9">>

\* \w of the re module, on ASCII text
WordChars ==
    LowerLetters \cup UpperLetters \cup Digits \cup {"_"}

\* \s of the re module, and the characters str.strip() removes
SpaceChars ==
    {" ", "\t", "\n", "\r", "\f"}

LowerMap ==
    "A" :> "a" @@ "B" :> "b" @@ "C" :> "c" @@ "D" :> "d" @@ "E" :> "e" @@ "F" :> "f" @@ "G" :> "g" @@ "H" :> "h" @@ "I" :> "i"
    @@ "J" :> "j" @@ "K" :> "k" @@ "L" :> "l" @@ "M" :> "m" @@ "N" :> "n" @@ "O" :> "o" @@ "P" :> "p" @@ "Q" :> "q" @@ "R" :> "r"
    @@ "S" :> "s" @@ "T" :> "t" @@ "U" :> "u" @@ "V" :> "v" @@ "W" :> "w" @@ "X" :> "x" @@ "Y" :> "y" @@ "Z" :> "z"

\* str.lower() on one character
LowerChar(c) ==
    IF c \in UpperLetters THEN LowerMap[c] ELSE c

\* str.upper() on one character
UpperChar(c) ==
    IF c \in LowerLetters
    THEN CHOOSE u \in UpperLetters : LowerMap[u] = c
    ELSE c

\* str.lower()
Lower(s) ==
    [i \in 1..Len(s) |-> LowerChar(s[i])]

\* prefix in s at position i (1-based)
MatchAt(s, pat, i) ==
    /\ i >= 1
    /\ i + Len(pat) - 1 <= Len(s)
    /\ \A k \in 1..Len(pat) : s[i + k - 1] = pat[k]

\* pat in s
Contains(s, pat) ==
    \E i \in 1..(Len(s) + 1) : MatchAt(s, pat, i)

\* s.startswith(pat)
StartsWith(s, pat) ==
    MatchAt(s, pat, 1)

\* s.endswith(pat)
EndsWith(s, pat) ==
    MatchAt(s, pat, Len(s) - Len(pat) + 1)

\* str(n) for an integer n >= 0
RECURSIVE IntToText(_)
IntToText(n) ==
    IF n < 10 THEN <<DigitText[n + 1]>>
    ELSE IntToText(n \div 10) \o <<DigitText[(n % 10) + 1]>>

\* the member of a set of one member.  TheOne({e : v \in {x}}) is e with v
\* the value of x, worked out once as a local variable's is
TheOne(S) ==
    CHOOSE r \in S : TRUE

RECURSIVE ConcatRange(_, _, _)
\* ss[lo] \o ... \o ss[hi], by halves
ConcatRange(ss, lo, hi) ==
    IF lo > hi THEN <<>>
    ELSE IF lo = hi THEN ss[lo]
    ELSE LET mid == (lo + hi) \div 2
         IN ConcatRange(ss, lo, mid) \o ConcatRange(ss, mid + 1, hi)

\* the concatenation of a sequence of sequences
Concat(ss) ==
    TheOne({ConcatRange(v, 1, Len(v)) : v \in {ss}})

\* Optional values: None is the empty sequence, a present value v is <<v>>
NoneValue ==
    <<>>

Some(v) ==
    <<v>>

----------------------------------------------------------------------------
(* The literal texts of the analyzer's messages and fixes                  *)

SyntaxErrorPrefix ==
    <<"S","y","n","t","a","x"," ","e","r","r","o","r",":"," ">>

FunctionMsgPrefix ==
    <<"F","u","n","c","t","i","o","n"," ","'">>

SnakeCaseMsgSuffix ==
    <<"'"," ","s","h","o","u","l","d"," ","u","s","e"," ","s","n","a","k","e","_","c","a","s",
      "e"," ","n","a","m","i","n","g"," ","(","P","E","P"," ","8",")">>

DefPrefix ==
    <<"d","e","f"," ">>

ClassMsgPrefix ==
    <<"C","l","a","s","s"," ","'">>

PascalCaseMsgSuffix ==
    <<"'"," ","s","h","o","u","l","d"," ","u","s","e"," ","P","a","s","c","a","l","C","a","s",
      "e"," ","n","a","m","i","n","g"," ","(","P","E","P"," ","8",")">>

ClassPrefix ==
    <<"c","l","a","s","s"," ">>

DescriptiveMsgPrefix ==
    <<"C","o","n","s","i","d","e","r"," ","u","s","i","n","g"," ","a"," ","m","o","r","e"," ",
      "d","e","s","c","r","i","p","t","i","v","e"," ","n","a","m","e"," ","i","n","s","t","e",
      "a","d"," ","o","f"," ","'">>

DescriptiveFix ==
    <<"d","e","s","c","r","i","p","t","i","v","e","_","n","a","m","e"," ","="," ",".",".",".">>

HighComplexityMid ==
    <<"'"," ","h","a","s"," ","h","i","g","h"," ","c","o","m","p","l","e","x","i","t","y"," ",
      "(">>

HighComplexitySuffix ==
    <<")","."," ","C","o","n","s","i","d","e","r"," ","r","e","f","a","c","t","o","r","i","n",
      "g",".">>

TooLongMid ==
    <<"'"," ","i","s"," ","t","o","o"," ","l","o","n","g"," ","(">>

TooLongSuffix ==
    <<" ","l","i","n","e","s",")","."," ","C","o","n","s","i","d","e","r"," ","b","r","e","a",
      "k","i","n","g"," ","i","t"," ","d","o","w","n",".">>

BareExceptMsg ==
    <<"A","v","o","i","d"," ","b","a","r","e"," ","'","e","x","c","e","p","t",":","'"," ","c",
      "l","a","u","s","e","s","."," ","S","p","e","c","i","f","y"," ","e","x","c","e","p","t",
      "i","o","n"," ","t","y","p","e","s",".">>

BareExceptFix ==
    <<"e","x","c","e","p","t"," ","E","x","c","e","p","t","i","o","n"," ","a","s"," ","e",":">>

MutableDefaultMsgPrefix ==
    <<"A","v","o","i","d"," ","m","u","t","a","b","l","e"," ","d","e","f","a","u","l","t"," ",
      "a","r","g","u","m","e","n","t","s"," ","i","n"," ","f","u","n","c","t","i","o","n"," ",
      "'">>

MutableDefaultMsgSuffix ==
    <<"'","."," ","U","s","e"," ","N","o","n","e"," ","i","n","s","t","e","a","d",".">>

MutableDefaultFix ==
    <<"d","e","f"," ","f","u","n","c","t","i","o","n","_","n","a","m","e","(","p","a","r","a",
      "m","=","N","o","n","e",")",":","\n"," "," "," "," ","i","f"," ","p","a","r","a","m"," ",
      "i","s"," ","N","o","n","e",":","\n"," "," "," "," "," "," "," "," ","p","a","r","a","m",
      " ","="," ","[","]">>

GlobalMsg ==
    <<"A","v","o","i","d"," ","u","s","i","n","g"," ","'","g","l","o","b","a","l","'","."," ",
      "C","o","n","s","i","d","e","r"," ","u","s","i","n","g"," ","f","u","n","c","t","i","o",
      "n"," ","p","a","r","a","m","e","t","e","r","s"," ","o","r"," ","c","l","a","s","s"," ",
      "a","t","t","r","i","b","u","t","e","s",".">>

GlobalFix ==
    <<"#"," ","P","a","s","s"," ","v","a","l","u","e"," ","a","s"," ","p","a","r","a","m","e",
      "t","e","r"," ","i","n","s","t","e","a","d",":","\n","d","e","f"," ","f","u","n","c","t",
      "i","o","n","(","p","a","r","a","m","e","t","e","r",")",":","\n"," "," "," "," ","r","e",
      "t","u","r","n"," ","p","a","r","a","m","e","t","e","r">>

ConcatMsg ==
    <<"S","t","r","i","n","g"," ","c","o","n","c","a","t","e","n","a","t","i","o","n"," ","i",
      "n"," ","l","o","o","p"," ","d","e","t","e","c","t","e","d","."," ","C","o","n","s","i",
      "d","e","r"," ","u","s","i","n","g"," ","j","o","i","n","(",")"," ","o","r"," ","l","i",
      "s","t"," ","c","o","m","p","r","e","h","e","n","s","i","o","n",".">>

ConcatFix ==
    <<"#"," ","U","s","e"," ","j","o","i","n"," ","i","n","s","t","e","a","d",":","\n","r","e",
      "s","u","l","t"," ","="," ","'","'",".","j","o","i","n","(","i","t","e","m","s",")","\n",
      "#"," ","o","r"," ","l","i","s","t"," ","c","o","m","p","r","e","h","e","n","s","i","o",
      "n",":","\n","r","e","s","u","l","t"," ","="," ","'","'",".","j","o","i","n","(","[","s",
      "t","r","(","i","t","e","m",")"," ","f","o","r"," ","i","t","e","m"," ","i","n"," ","i",
      "t","e","m","s","]",")">>

LineLengthMsg ==
    <<"L","i","n","e"," ","e","x","c","e","e","d","s"," ","1","2","0"," ","c","h","a","r","a",
      "c","t","e","r","s"," ","(","P","E","P"," ","8"," ","r","e","c","o","m","m","e","n","d",
      "s"," ","m","a","x"," ","7","9","-","1","2","0",")">>

TrailingMsg ==
    <<"T","r","a","i","l","i","n","g"," ","w","h","i","t","e","s","p","a","c","e"," ","d","e",
      "t","e","c","t","e","d">>

MissingSpacesMsg ==
    <<"M","i","s","s","i","n","g"," ","s","p","a","c","e","s"," ","a","r","o","u","n","d"," ",
      "a","s","s","i","g","n","m","e","n","t"," ","o","p","e","r","a","t","o","r"," ","(","P",
      "E","P"," ","8",")">>

MultipleStatementsMsg ==
    <<"A","v","o","i","d"," ","m","u","l","t","i","p","l","e"," ","s","t","a","t","e","m","e",
      "n","t","s"," ","o","n"," ","o","n","e"," ","l","i","n","e"," ","(","P","E","P"," ","8",
      ")">>

ExceedsWord ==
    <<"e","x","c","e","e","d","s">>

MissingSpacesWord ==
    <<"M","i","s","s","i","n","g"," ","s","p","a","c","e","s">>

PascalCaseWord ==
    <<"P", "a", "s", "c", "a", "l", "C", "a", "s", "e">>

SnakeCaseWord ==
    <<"s","n","a","k","e","_","c","a","s","e">>

BareWord ==
    <<"b","a","r","e">>


----------------------------------------------------------------------------
(* app/models/suggestion.py                                                *)

Suggestion(type, severity, message, line, suggested_fix) ==
    [type |-> type, severity |-> severity, message |-> message,
     line |-> line, suggested_fix |-> suggested_fix]

----------------------------------------------------------------------------
(* Syntax trees.  A tree is a sequence of nodes in document order; node 1  *)
(* is the Module, every other node names its parent, which precedes it.    *)
(* Node classes that no checker tests are not represented.                 *)

RECURSIVE SortedSeq(_)
\* the members of a set of integers, ascending
SortedSeq(S) ==
    IF S = {} THEN <<>>
    ELSE TheOne({<<m>> \o TheOne({SortedSeq(rest) : rest \in {S \ {m}}}) :
                    m \in {CHOOSE x \in S : \A y \in S : x <= y}})

\* ast.iter_child_nodes(node): the children in field order
Children(tree, i) ==
    SortedSeq({j \in 1..Len(tree) : tree[j].parent = i})

RECURSIVE WalkFrom(_, _)
\* the loop of ast.walk: pop the left of the deque, append the children
WalkFrom(tree, todo) ==
    IF todo = <<>> THEN <<>>
    ELSE <<Head(todo)>>
         \o TheOne({WalkFrom(tree, rest) :
                       rest \in {Tail(todo) \o Children(tree, Head(todo))}})

\* ast.walk(node): the node and its descendants, breadth first
Walk(tree, i) ==
    WalkFrom(tree, <<i>>)

----------------------------------------------------------------------------
(* _check_naming_conventions                                               *)

\* re.match(r'^[a-z_][a-z0-9_]*$', name)
IsSnakeCase(name) ==
    /\ Len(name) >= 1
    /\ name[1] \in LowerLetters \cup {"_"}
    /\ \A k \in 2..Len(name) : name[k] \in LowerLetters \cup Digits \cup {"_"}

\* re.match(r'^[A-Z][a-zA-Z0-9]*$', name)
IsPascalCase(name) ==
    /\ Len(name) >= 1
    /\ name[1] \in UpperLetters
    /\ \A k \in 2..Len(name) :
           name[k] \in LowerLetters \cup UpperLetters \cup Digits

\* the conversion without the (?<!^) lookbehind
ToSnakeCaseEveryUpper(name) ==
    Lower(Concat([k \in 1..Len(name) |->
        IF name[k] \in UpperLetters
        THEN <<"_", name[k]>> ELSE <<name[k]>>]))

\* re.sub(r'(?<!^)(?=[A-Z])', '_', name).lower()
ToSnakeCase(name) ==
    Lower(Concat([k \in 1..Len(name) |->
        IF k > 1 /\ name[k] \in UpperLetters
        THEN <<"_", name[k]>> ELSE <<name[k]>>]))

\* word.capitalize()
Capitalize(word) ==
    [k \in 1..Len(word) |->
        IF k = 1 THEN UpperChar(word[k]) ELSE LowerChar(word[k])]

RECURSIVE SplitOn(_, _, _)
\* the pieces of s between maximal runs of separator characters, with
\* cur the piece being read (re.split on a character class with +)
SplitOn(s, seps, cur) ==
    IF s = <<>> THEN <<cur>>
    ELSE IF Head(s) \in seps
         THEN IF Len(s) > 1 /\ s[2] \in seps
              THEN TheOne({SplitOn(rest, seps, cur) : rest \in {Tail(s)}})
              ELSE <<cur>>
                   \o TheOne({SplitOn(rest, seps, <<>>) : rest \in {Tail(s)}})
         ELSE TheOne({SplitOn(r[1], seps, r[2]) :
                         r \in {<<Tail(s), Append(cur, Head(s))>>}})

\* ''.join(word.capitalize() for word in re.split(r'[_\s]+', name))
ToPascalCase(name) ==
    LET words == SplitOn(name, {"_"} \cup SpaceChars, <<>>)
    IN Concat([k \in 1..Len(words) |-> Capitalize(words[k])])

\* str.isupper(): some cased character, and no lowercase one
IsUpper(s) ==
    /\ \E k \in 1..Len(s) : s[k] \in UpperLetters
    /\ \A k \in 1..Len(s) : s[k] \notin LowerLetters

\* str.islower(): some cased character, and no uppercase one
IsLower(s) ==
    /\ \E k \in 1..Len(s) : s[k] \in LowerLetters
    /\ \A k \in 1..Len(s) : s[k] \notin UpperLetters

FunctionNameFlagged(name) ==
    ~IsSnakeCase(name) /\ ~StartsWith(name, <<"_", "_">>)

FunctionNameSuggestion(node) ==
    Suggestion("style", "medium",
               FunctionMsgPrefix \o node.name \o SnakeCaseMsgSuffix,
               Some(node.lineno),
               Some(DefPrefix \o ToSnakeCase(node.name) \o <<"(">>))

ClassNameSuggestion(node) ==
    Suggestion("style", "medium",
               ClassMsgPrefix \o node.name \o PascalCaseMsgSuffix,
               Some(node.lineno),
               Some(ClassPrefix \o ToPascalCase(node.name) \o <<":">>))

\* the check made on the first target only
TargetSuggestionsFirstOnly(node) ==
    LET target == node.targets[1]
        name == target.id
    IN IF target.class = "Name" /\ Len(name) = 1 /\ IsLower(name)
       THEN <<Suggestion("readability", "low",
                  DescriptiveMsgPrefix \o name \o <<"'">>,
                  Some(node.lineno), Some(DescriptiveFix))>>
       ELSE <<>>

\* the loop over node.targets of an Assign
TargetSuggestions(node) ==
    Concat([k \in 1..Len(node.targets) |->
        LET target == node.targets[k]
            name == target.id
        IN IF target.class # "Name" THEN <<>>
           ELSE IF IsUpper(name) /\ Len(name) > 1 THEN <<>>
           ELSE IF "_" \notin {name[j] : j \in 1..Len(name)}
                   /\ IsLower(name) /\ Len(name) = 1
                THEN <<Suggestion("readability", "low",
                           DescriptiveMsgPrefix \o name \o <<"'">>,
                           Some(node.lineno), Some(DescriptiveFix))>>
                ELSE <<>>])

\* the body of the loop of _check_naming_conventions for one node
NamingOfNode(node) ==
    (IF node.kind = "FunctionDef" /\ FunctionNameFlagged(node.name)
     THEN <<FunctionNameSuggestion(node)>> ELSE <<>>)
    \o (IF node.kind = "ClassDef" /\ ~IsPascalCase(node.name)
        THEN <<ClassNameSuggestion(node)>> ELSE <<>>)
    \o (IF node.kind = "Assign" THEN TargetSuggestions(node) ELSE <<>>)

\* what _check_naming_conventions appends, in order
CheckNamingConventions(tree) ==
    TheOne({Concat([k \in 1..Len(order) |-> NamingOfNode(tree[order[k]])]) :
               order \in {Walk(tree, 1)}})

----------------------------------------------------------------------------
(* _calculate_complexity and _check_code_complexity                        *)

ComplexityThreshold ==
    10

LengthThreshold ==
    50

RECURSIVE SumSeq(_)
SumSeq(q) ==
    IF q = <<>> THEN 0
    ELSE Head(q) + TheOne({SumSeq(rest) : rest \in {Tail(q)}})

\* ComplexityOfNode with N in place of N - 1 for a boolean expression
ComplexityOfNodeAllOperands(node) ==
    IF node.kind \in {"If", "While", "For", "ExceptHandler"} THEN 1
    ELSE IF node.kind = "BoolOp" THEN node.nvalues
    ELSE 0

\* what one node of the walk adds to the complexity
ComplexityOfNode(node) ==
    IF node.kind \in {"If", "While", "For", "ExceptHandler"} THEN 1
    ELSE IF node.kind = "BoolOp" THEN node.nvalues - 1
    ELSE 0

\* _calculate_complexity(node)
CalculateComplexity(tree, i) ==
    TheOne({1 + SumSeq([k \in 1..Len(order) |->
                           ComplexityOfNode(tree[order[k]])]) :
               order \in {Walk(tree, i)}})

HighComplexitySuggestion(node, complexity) ==
    Suggestion("complexity", "high",
               FunctionMsgPrefix \o node.name \o HighComplexityMid
                   \o IntToText(complexity) \o HighComplexitySuffix,
               Some(node.lineno), NoneValue)

\* length = node.end_lineno - node.lineno
FunctionLength(node) ==
    node.end_lineno - node.lineno

TooLongSuggestion(node, length) ==
    Suggestion("complexity", "medium",
               FunctionMsgPrefix \o node.name \o TooLongMid
                   \o IntToText(length) \o TooLongSuffix,
               Some(node.lineno), NoneValue)

\* ComplexityOfFunction with >= in place of > in the complexity test
ComplexityOfFunctionFromThreshold(tree, i) ==
    IF tree[i].kind # "FunctionDef" THEN <<>>
    ELSE (IF CalculateComplexity(tree, i) >= ComplexityThreshold
          THEN <<HighComplexitySuggestion(tree[i], CalculateComplexity(tree, i))>>
          ELSE <<>>)
         \o (IF FunctionLength(tree[i]) > LengthThreshold
             THEN <<TooLongSuggestion(tree[i], FunctionLength(tree[i]))>>
             ELSE <<>>)

\* the body of the loop of _check_code_complexity for one node
ComplexityOfFunction(tree, i) ==
    IF tree[i].kind # "FunctionDef" THEN <<>>
    ELSE (IF CalculateComplexity(tree, i) > ComplexityThreshold
          THEN <<HighComplexitySuggestion(tree[i], CalculateComplexity(tree, i))>>
          ELSE <<>>)
         \o (IF FunctionLength(tree[i]) > LengthThreshold
             THEN <<TooLongSuggestion(tree[i], FunctionLength(tree[i]))>>
             ELSE <<>>)

\* what _check_code_complexity appends, in order
CheckCodeComplexity(tree) ==
    TheOne({Concat([k \in 1..Len(order) |-> ComplexityOfFunction(tree, order[k])]) :
               order \in {Walk(tree, 1)}})

----------------------------------------------------------------------------
(* _check_best_practices                                                   *)

BareExceptSuggestion(node) ==
    Suggestion("best_practice", "high", BareExceptMsg,
               Some(node.lineno), Some(BareExceptFix))

MutableDefaultSuggestion(node) ==
    Suggestion("best_practice", "high",
               MutableDefaultMsgPrefix \o node.name \o MutableDefaultMsgSuffix,
               Some(node.lineno), Some(MutableDefaultFix))

\* GlobalSuggestion with the type of the parser's suggestion
GlobalSuggestionAsSyntax(node) ==
    Suggestion("syntax", "medium", GlobalMsg,
               Some(node.lineno), Some(GlobalFix))

GlobalSuggestion(node) ==
    Suggestion("best_practice", "medium", GlobalMsg,
               Some(node.lineno), Some(GlobalFix))

\* isinstance(default, (ast.List, ast.Dict, ast.Set))
IsMutableLiteral(default) ==
    default \in {"List", "Dict", "Set"}

\* the loop over node.args.defaults
MutableDefaultSuggestions(node) ==
    Concat([k \in 1..Len(node.defaults) |->
        IF IsMutableLiteral(node.defaults[k])
        THEN <<MutableDefaultSuggestion(node)>> ELSE <<>>])

\* IsBareHandler without the test of node.type
IsAnyHandler(node) ==
    node.kind = "ExceptHandler"

\* isinstance(node, ast.ExceptHandler) and node.type is None
IsBareHandler(node) ==
    node.kind = "ExceptHandler" /\ node.type = NoneValue

\* the body of the loop of _check_best_practices for one node
BestPracticesOfNode(node) ==
    (IF IsBareHandler(node)
     THEN <<BareExceptSuggestion(node)>> ELSE <<>>)
    \o (IF node.kind = "FunctionDef"
        THEN MutableDefaultSuggestions(node) ELSE <<>>)
    \o (IF node.kind = "Global" THEN <<GlobalSuggestion(node)>> ELSE <<>>)

\* the checker leaving its loop at the first finding
CheckBestPracticesFirstFinding(tree) ==
    TheOne({SubSeq(all, 1, IF all = <<>> THEN 0 ELSE 1) :
               all \in {TheOne({Concat([k \in 1..Len(order) |->
                                    BestPracticesOfNode(tree[order[k]])]) :
                                order \in {Walk(tree, 1)}})}})

\* what _check_best_practices appends, in order
CheckBestPractices(tree) ==
    TheOne({Concat([k \in 1..Len(order) |-> BestPracticesOfNode(tree[order[k]])]) :
               order \in {Walk(tree, 1)}})

----------------------------------------------------------------------------
(* _check_performance_issues                                               *)

\* ConcatSuggestion with a severity outside low, medium, high
ConcatSuggestionWarning(node) ==
    Suggestion("performance", "warning", ConcatMsg,
               Some(node.lineno), Some(ConcatFix))

ConcatSuggestion(node) ==
    Suggestion("performance", "medium", ConcatMsg,
               Some(node.lineno), Some(ConcatFix))

\* the test of the inner loop: an augmented add to a simple name
IsAugmentedAddToName(node) ==
    /\ node.kind = "AugAssign"
    /\ node.op = "Add"
    /\ node.target = "Name"

\* PerformanceOfNode without the break: one suggestion for every node of
\* the loop's walk that passes the test
PerformanceOfNodeNoBreak(tree, i) ==
    IF tree[i].kind \in {"For", "While"}
    THEN TheOne({Concat([k \in 1..Len(inner) |->
                            IF IsAugmentedAddToName(tree[inner[k]])
                            THEN <<ConcatSuggestion(tree[i])>> ELSE <<>>]) :
                    inner \in {Walk(tree, i)}})
    ELSE <<>>

\* the inner loop with its break: one suggestion for the loop if any node
\* of its walk passes the test
PerformanceOfNode(tree, i) ==
    IF tree[i].kind \in {"For", "While"}
       /\ \E inner \in {Walk(tree, i)} :
              \E k \in 1..Len(inner) : IsAugmentedAddToName(tree[inner[k]])
    THEN <<ConcatSuggestion(tree[i])>>
    ELSE <<>>

\* what _check_performance_issues appends, in order
CheckPerformanceIssues(tree) ==
    TheOne({Concat([k \in 1..Len(order) |-> PerformanceOfNode(tree, order[k])]) :
               order \in {Walk(tree, 1)}})

----------------------------------------------------------------------------
(* _check_style_issues                                                     *)

MaxLineLength ==
    120

\* the position of the k-th occurrence of the character sep in s
PositionOf(s, sep, k) ==
    CHOOSE i \in 1..Len(s) :
        /\ s[i] = sep
        /\ Cardinality({j \in 1..(i - 1) : s[j] = sep}) = k - 1

\* str.split(sep) for a one-character separator: every separator ends a
\* piece, empty pieces are kept
SplitStr(s, sep) ==
    LET n == Cardinality({i \in 1..Len(s) : s[i] = sep})
    IN [k \in 1..(n + 1) |->
           SubSeq(s,
                  IF k = 1 THEN 1 ELSE PositionOf(s, sep, k - 1) + 1,
                  IF k = n + 1 THEN Len(s) ELSE PositionOf(s, sep, k) - 1)]

RECURSIVE LStrip(_)
\* str.lstrip()
LStrip(s) ==
    IF s # <<>> /\ Head(s) \in SpaceChars
    THEN TheOne({LStrip(rest) : rest \in {Tail(s)}}) ELSE s

RECURSIVE RStrip(_)
\* str.rstrip()
RStrip(s) ==
    IF s # <<>> /\ s[Len(s)] \in SpaceChars
    THEN TheOne({RStrip(rest) : rest \in {SubSeq(s, 1, Len(s) - 1)}}) ELSE s

\* str.strip()
Strip(s) ==
    TheOne({LStrip(right) : right \in {RStrip(s)}})

\* the operators whose presence in the line skips the assignment check
CompoundOperators ==
    {<<"=", "=">>, <<"!", "=">>, <<"<", "=">>, <<">", "=">>,
     <<"+", "=">>, <<"-", "=">>, <<"*", "=">>, <<"/", "=">>}

\* [^=\s] of the re module
NotEqualsNorSpace(c) ==
    c # "=" /\ c \notin SpaceChars

\* re.search(r'\w=[^=\s]|[^=\s]=\w', line)
HasUnspacedAssignment(line) ==
    \E i \in 1..(Len(line) - 2) :
        /\ line[i + 1] = "="
        /\ \/ line[i] \in WordChars /\ NotEqualsNorSpace(line[i + 2])
           \/ NotEqualsNorSpace(line[i]) /\ line[i + 2] \in WordChars

\* (\w)=([^=\s]) matches the three characters of s from position i
WordFirstAt(s, i) ==
    /\ i >= 1
    /\ i + 2 <= Len(s)
    /\ s[i] \in WordChars
    /\ s[i + 1] = "="
    /\ NotEqualsNorSpace(s[i + 2])

\* ([^=\s])=(\w) matches the three characters of s from position i
WordLastAt(s, i) ==
    /\ i >= 1
    /\ i + 2 <= Len(s)
    /\ NotEqualsNorSpace(s[i])
    /\ s[i + 1] = "="
    /\ s[i + 2] \in WordChars

\* whether the pattern matches with its = at position i
MatchesAt(s, i, pattern) ==
    IF pattern = "word_first" THEN WordFirstAt(s, i) ELSE WordLastAt(s, i)

\* re.sub takes its matches left to right without overlap.  A match is
\* three characters with = in the middle, so two places where the pattern
\* matches overlap only when they are two apart (a=b=c): of a run of such
\* places the first, third, fifth, ... are taken.
TakenAt(s, i, pattern) ==
    /\ MatchesAt(s, i, pattern)
    /\ \E before \in {{j \in 1..i : ~MatchesAt(s, i - (2 * j), pattern)}} :
           (CHOOSE j \in before : \A k \in before : j <= k) % 2 = 1

\* re.sub(pattern, r'\1 = \2', s) for a pattern of that shape: the = of
\* every match taken becomes ' = '
SubSpaced(s, pattern) ==
    Concat([i \in 1..Len(s) |->
        IF TakenAt(s, i - 1, pattern) THEN <<" ", "=", " ">> ELSE <<s[i]>>])

\* re.sub(r'(\w)=([^=\s])', r'\1 = \2', s)
SubWordFirst(s) ==
    SubSpaced(s, "word_first")

\* re.sub(r'([^=\s])=(\w)', r'\1 = \2', s)
SubWordLast(s) ==
    SubSpaced(s, "word_last")

\* fixed_line.strip() after the two substitutions
MissingSpacesFix(line) ==
    TheOne({TheOne({Strip(fixed_again) :
                       fixed_again \in {SubWordLast(fixed_line)}}) :
               fixed_line \in {SubWordFirst(line)}})

\* the condition of the assignment-operator check
MissingSpacesFlagged(line) ==
    /\ Contains(line, <<"=">>)
    /\ ~\E op \in CompoundOperators : Contains(line, op)
    /\ HasUnspacedAssignment(line)

\* '\n'.join(s.strip() for s in statements if s.strip())
MultipleStatementsFix(line) ==
    TheOne({TheOne({Concat([k \in 1..Len(kept) |->
                               IF k = 1 THEN kept[k] ELSE <<"\n">> \o kept[k]]) :
                       kept \in {SelectSeq([k \in 1..Len(statements) |->
                                               Strip(statements[k])],
                                           LAMBDA st : st # <<>>)}}) :
               statements \in {SplitStr(line, ";")}})

\* the condition of the multiple-statements check
MultipleStatementsFlagged(line) ==
    Contains(line, <<";">>) /\ ~StartsWith(Strip(line), <<"#">>)

\* StyleOfLine with >= in place of > in the test of the line's length
StyleOfLineFromLimit(line, i) ==
    (IF Len(line) >= MaxLineLength
     THEN <<Suggestion("style", "low", LineLengthMsg, Some(i), NoneValue)>>
     ELSE <<>>)
    \o (IF EndsWith(line, <<" ">>) \/ EndsWith(line, <<"\t">>)
        THEN <<Suggestion("style", "low", TrailingMsg, Some(i),
                          Some(RStrip(line)))>>
        ELSE <<>>)
    \o (IF MissingSpacesFlagged(line)
        THEN <<Suggestion("style", "low", MissingSpacesMsg, Some(i),
                          Some(MissingSpacesFix(line)))>>
        ELSE <<>>)
    \o (IF MultipleStatementsFlagged(line)
        THEN <<Suggestion("style", "medium", MultipleStatementsMsg, Some(i),
                          Some(MultipleStatementsFix(line)))>>
        ELSE <<>>)

\* the body of the loop of _check_style_issues for line number i
StyleOfLine(line, i) ==
    (IF Len(line) > MaxLineLength
     THEN <<Suggestion("style", "low", LineLengthMsg, Some(i), NoneValue)>>
     ELSE <<>>)
    \o (IF EndsWith(line, <<" ">>) \/ EndsWith(line, <<"\t">>)
        THEN <<Suggestion("style", "low", TrailingMsg, Some(i),
                          Some(RStrip(line)))>>
        ELSE <<>>)
    \o (IF MissingSpacesFlagged(line)
        THEN <<Suggestion("style", "low", MissingSpacesMsg, Some(i),
                          Some(MissingSpacesFix(line)))>>
        ELSE <<>>)
    \o (IF MultipleStatementsFlagged(line)
        THEN <<Suggestion("style", "medium", MultipleStatementsMsg, Some(i),
                          Some(MultipleStatementsFix(line)))>>
        ELSE <<>>)

\* what _check_style_issues appends, in order; lines = code.split('\n')
CheckStyleIssues(code) ==
    TheOne({Concat([i \in 1..Len(lines) |-> StyleOfLine(lines[i], i)]) :
               lines \in {SplitStr(code, "\n")}})

----------------------------------------------------------------------------
(* Inputs: the syntax trees ast.parse can return                           *)

\* the largest number of nodes below the Module in a generated tree
MaxNodes ==
    2

\* a node of class kind with every other attribute absent or empty
BlankNode(kind) ==
    [kind |-> kind, parent |-> 0, lineno |-> 0, end_lineno |-> 0,
     name |-> <<>>, type |-> NoneValue, defaults |-> <<>>,
     kw_defaults |-> <<>>, targets |-> <<>>, target |-> "",
     op |-> "", nvalues |-> 0]

ModuleNode ==
    BlankNode("Module")

\* the names given to generated functions
FunctionNamePool ==
    {<<"a">>, <<"F">>, <<"F", "a">>, <<"a", "F">>, <<"_", "F">>,
     <<"_", "_", "F">>, <<"a", "_", "1">>}

\* the default values given to generated parameters
DefaultPool ==
    {<<>>, <<"List">>, <<"Constant">>, <<"Dict", "Set">>}

FunctionTemplates ==
    {[BlankNode("FunctionDef") EXCEPT !.name = n] : n \in FunctionNamePool}
    \cup {[BlankNode("FunctionDef") EXCEPT !.name = <<"f">>, !.defaults = d] :
             d \in DefaultPool \ {<<>>}}
    \cup {[BlankNode("FunctionDef") EXCEPT !.name = <<"f">>,
                                           !.kw_defaults = <<"List">>]}
    \cup {[BlankNode("AsyncFunctionDef") EXCEPT !.name = <<"F">>,
                                                !.defaults = <<"List">>]}

ClassTemplates ==
    {[BlankNode("ClassDef") EXCEPT !.name = n] : n \in {<<"C">>, <<"c">>}}

NameTarget(id) ==
    [class |-> "Name", id |-> id]

OtherTarget(class) ==
    [class |-> class, id |-> <<>>]

AssignTemplates ==
    {[BlankNode("Assign") EXCEPT !.targets = <<NameTarget(<<"x">>)>>],
     [BlankNode("Assign") EXCEPT !.targets = <<NameTarget(<<"x", "s">>)>>]}

AugAssignTemplates ==
    {[BlankNode("AugAssign") EXCEPT !.target = "Name", !.op = "Add"],
     [BlankNode("AugAssign") EXCEPT !.target = "Attribute", !.op = "Add"]}

HandlerTemplates ==
    {BlankNode("ExceptHandler"),
     [BlankNode("ExceptHandler") EXCEPT !.type = Some(<<"E">>)]}

OtherTemplates ==
    {BlankNode("Global"), BlankNode("If"), BlankNode("For"),
     BlankNode("While"), BlankNode("Try"),
     [BlankNode("BoolOp") EXCEPT !.nvalues = 11]}

Templates ==
    FunctionTemplates \cup ClassTemplates \cup AssignTemplates
    \cup AugAssignTemplates \cup HandlerTemplates \cup OtherTemplates

\* the node classes that hold a block of statements
BlockKinds ==
    {"Module", "FunctionDef", "AsyncFunctionDef", "ClassDef", "If", "For",
     "While", "Try", "ExceptHandler"}

\* the node classes with an expression of their own on their first line
\* (a test, a value, an operand); in a block an expression stands in a
\* statement on a line of its own
ExpressionHolders ==
    {"If", "While", "Assign", "BoolOp"}

\* the grammar: which parent a node of a class can have
ParentAllowed(kind, parentKind) ==
    CASE kind = "ExceptHandler" -> parentKind = "Try"
      [] kind = "BoolOp" -> parentKind \in BlockKinds \cup ExpressionHolders
      [] OTHER -> parentKind \in BlockKinds

RECURSIVE AncestorsOrSelf(_, _)
\* node i and its ancestors
AncestorsOrSelf(tree, i) ==
    IF i = 0 THEN {} ELSE {i} \cup AncestorsOrSelf(tree, tree[i].parent)

MaxOf(S) ==
    CHOOSE x \in S : \A y \in S : y <= x

\* the trees that append one node to a tree, in document order: the new
\* node hangs below the last node or one of its ancestors; an operand or
\* test is on its parent's line, every other node starts a new line
Extensions(tree) ==
    {Append(tree, [t EXCEPT !.parent = p,
                            !.lineno = IF t.kind = "BoolOp"
                                          /\ tree[p].kind \in ExpressionHolders
                                       THEN tree[p].lineno
                                       ELSE MaxOf({tree[j].lineno :
                                                j \in 1..Len(tree)}) + 1]) :
        <<t, p>> \in {tp \in Templates \X AncestorsOrSelf(tree, Len(tree)) :
                        ParentAllowed(tp[1].kind, tree[tp[2]].kind)}}

RECURSIVE TreesOfSize(_)
\* the trees with n nodes below the Module
TreesOfSize(n) ==
    IF n = 0 THEN {<<ModuleNode>>}
    ELSE UNION {Extensions(tree) : tree \in TreesOfSize(n - 1)}

RECURSIVE Descendants(_, _)
\* node i and the nodes below it
Descendants(tree, i) ==
    {i} \cup UNION {Descendants(tree, j) :
                        j \in {c \in 1..Len(tree) : tree[c].parent = i}}

\* the tree with end_lineno set: the last line of each node's subtree
WithEndLines(tree) ==
    [i \in 1..Len(tree) |->
        [tree[i] EXCEPT !.end_lineno =
            MaxOf({tree[j].lineno : j \in Descendants(tree, i)})]]

Trees ==
    {WithEndLines(tree) : tree \in UNION {TreesOfSize(n) : n \in 0..MaxNodes}}

----------------------------------------------------------------------------
(* Inputs: code snippets.  A snippet is its text together with what        *)
(* ast.parse does on that text: the tree it returns or the SyntaxError it  *)
(* raises.                                                                 *)

ParsedSnippet(text, tree) ==
    [text |-> text, ok |-> TRUE, tree |-> tree,
     error_text |-> <<>>, error_lineno |-> NoneValue]

FailedSnippet(text, error_text, error_lineno) ==
    [text |-> text, ok |-> FALSE, tree |-> <<>>,
     error_text |-> error_text, error_lineno |-> error_lineno]

----------------------------------------------------------------------------
(* Snippets of the tests, of the request example and of the checkers'      *)
(* cases, each with what ast.parse does on it                              *)

\* the character with code 0
NulChar ==
    "\\0"

\* EmptySnippet with a parser that raises SyntaxError on the empty text
EmptySnippetRejected ==
    FailedSnippet(<<>>, <<>>, NoneValue)

\* ''
EmptySnippet ==
    ParsedSnippet(
        <<>>,
        <<BlankNode("Module")>>)

\* 'def broken(\n    pass'
BrokenSnippet ==
    FailedSnippet(
        <<"d","e","f"," ","b","r","o","k","e","n","(","\n"," "," "," "," ","p","a","s","s">>,
        <<"'","(","'"," ","w","a","s"," ","n","e","v","e","r"," ","c","l","o","s","e","d",
          " ","(","<","u","n","k","n","o","w","n",">",","," ","l","i","n","e"," ",
          "1",")">>,
        <<1>>)

\* '\x00'
NulSnippet ==
    FailedSnippet(
        <<NulChar>>,
        <<"s","o","u","r","c","e"," ","c","o","d","e"," ","s","t","r","i","n","g"," ","c",
          "a","n","n","o","t"," ","c","o","n","t","a","i","n"," ","n","u","l","l",
          " ","b","y","t","e","s">>,
        <<>>)

\* 'def BadFunctionName():\n    pass'
BadFunctionNameSnippet ==
    ParsedSnippet(
        <<"d","e","f"," ","B","a","d","F","u","n","c","t","i","o","n","N","a","m","e","(",
          ")",":","\n"," "," "," "," ","p","a","s","s">>,
        <<BlankNode("Module"),
         [BlankNode("FunctionDef") EXCEPT !.parent = 1, !.lineno = 1, !.end_lineno = 2, !.name = <<"B","a","d","F","u","n","c","t","i","o","n","N","a","m","e">>]>>)

\* '\ntry:\n    risky_operation()\nexcept:\n    pass\n'
BareExceptSnippet ==
    ParsedSnippet(
        <<"\n","t","r","y",":","\n"," "," "," "," ","r","i","s","k","y","_","o","p","e","r",
          "a","t","i","o","n","(",")","\n","e","x","c","e","p","t",":","\n"," "," ",
          " "," ","p","a","s","s","\n">>,
        <<BlankNode("Module"),
         [BlankNode("Try") EXCEPT !.parent = 1, !.lineno = 2, !.end_lineno = 5],
         [BlankNode("ExceptHandler") EXCEPT !.parent = 2, !.lineno = 4, !.end_lineno = 5]>>)

\* '\ndef calculate_sum(numbers):\n    total = 0\n    for num in numb...'
CalculateSumSnippet ==
    ParsedSnippet(
        <<"\n","d","e","f"," ","c","a","l","c","u","l","a","t","e","_","s","u","m","(","n",
          "u","m","b","e","r","s",")",":","\n"," "," "," "," ","t","o","t","a","l",
          " ","="," ","0","\n"," "," "," "," ","f","o","r"," ","n","u","m"," ","i",
          "n"," ","n","u","m","b","e","r","s",":","\n"," "," "," "," "," "," "," ",
          " ","t","o","t","a","l"," ","+","="," ","n","u","m","\n"," "," "," "," ",
          "r","e","t","u","r","n"," ","t","o","t","a","l","\n">>,
        <<BlankNode("Module"),
         [BlankNode("FunctionDef") EXCEPT !.parent = 1, !.lineno = 2, !.end_lineno = 6, !.name = <<"c","a","l","c","u","l","a","t","e","_","s","u","m">>],
         [BlankNode("Assign") EXCEPT !.parent = 2, !.lineno = 3, !.end_lineno = 3, !.targets = <<NameTarget(<<"t","o","t","a","l">>)>>],
         [BlankNode("For") EXCEPT !.parent = 2, !.lineno = 4, !.end_lineno = 5],
         [BlankNode("AugAssign") EXCEPT !.parent = 4, !.lineno = 5, !.end_lineno = 5, !.target = "Name", !.op = "Add"]>>)

\* 'def f(x=[]):\n    pass'
MutableDefaultSnippet ==
    ParsedSnippet(
        <<"d","e","f"," ","f","(","x","=","[","]",")",":","\n"," "," "," "," ","p","a","s","s">>,
        <<BlankNode("Module"),
         [BlankNode("FunctionDef") EXCEPT !.parent = 1, !.lineno = 1, !.end_lineno = 2, !.name = <<"f">>, !.defaults = <<"List">>]>>)

\* 'def sum(a,b):\n  return a+b'
RequestExampleSnippet ==
    ParsedSnippet(
        <<"d","e","f"," ","s","u","m","(","a",",","b",")",":","\n"," "," ","r","e","t","u",
          "r","n"," ","a","+","b">>,
        <<BlankNode("Module"),
         [BlankNode("FunctionDef") EXCEPT !.parent = 1, !.lineno = 1, !.end_lineno = 2, !.name = <<"s","u","m">>]>>)

\* 'x=1; y = 2 '
TwoStatementsSnippet ==
    ParsedSnippet(
        <<"x","=","1",";"," ","y"," ","="," ","2"," ">>,
        <<BlankNode("Module"),
         [BlankNode("Assign") EXCEPT !.parent = 1, !.lineno = 1, !.end_lineno = 1, !.targets = <<NameTarget(<<"x">>)>>],
         [BlankNode("Assign") EXCEPT !.parent = 1, !.lineno = 1, !.end_lineno = 1, !.targets = <<NameTarget(<<"y">>)>>]>>)

\* 'def Busy(a, b=[]):\n    for i in a: b+=1;\n    return a and a and...'
AllCheckersSnippet ==
    ParsedSnippet(
        <<"d","e","f"," ","B","u","s","y","(","a",","," ","b","=","[","]",")",":","\n"," ",
          " "," "," ","f","o","r"," ","i"," ","i","n"," ","a",":"," ","b","+","=",
          "1",";","\n"," "," "," "," ","r","e","t","u","r","n"," ","a"," ","a","n",
          "d"," ","a"," ","a","n","d"," ","a"," ","a","n","d"," ","a"," ","a","n",
          "d"," ","a"," ","a","n","d"," ","a"," ","a","n","d"," ","a"," ","a","n",
          "d"," ","a"," ","a","n","d"," ","a"," ","a","n","d"," ","a"," ","a","n",
          "d"," ","a">>,
        <<BlankNode("Module"),
         [BlankNode("FunctionDef") EXCEPT !.parent = 1, !.lineno = 1, !.end_lineno = 3, !.name = <<"B","u","s","y">>, !.defaults = <<"List">>],
         [BlankNode("For") EXCEPT !.parent = 2, !.lineno = 2, !.end_lineno = 2],
         [BlankNode("AugAssign") EXCEPT !.parent = 3, !.lineno = 2, !.end_lineno = 2, !.target = "Name", !.op = "Add"],
         [BlankNode("BoolOp") EXCEPT !.parent = 2, !.lineno = 3, !.end_lineno = 3, !.nvalues = 11]>>)

\* 'x=1 \ny z;'
StyleThenBrokenSnippet ==
    FailedSnippet(
        <<"x","=","1"," ","\n","y"," ","z",";">>,
        <<"i","n","v","a","l","i","d"," ","s","y","n","t","a","x"," ","(","<","u","n","k",
          "n","o","w","n",">",","," ","l","i","n","e"," ","2",")">>,
        <<2>>)

\* 'class counter:\n    def Bump(self, by={}):\n        global n\n   ...'
GlobalInClassSnippet ==
    ParsedSnippet(
        <<"c","l","a","s","s"," ","c","o","u","n","t","e","r",":","\n"," "," "," "," ","d",
          "e","f"," ","B","u","m","p","(","s","e","l","f",","," ","b","y","=","{",
          "}",")",":","\n"," "," "," "," "," "," "," "," ","g","l","o","b","a","l",
          " ","n","\n"," "," "," "," "," "," "," "," ","n"," ","+","="," ","1">>,
        <<BlankNode("Module"),
         [BlankNode("ClassDef") EXCEPT !.parent = 1, !.lineno = 1, !.end_lineno = 4, !.name = <<"c","o","u","n","t","e","r">>],
         [BlankNode("FunctionDef") EXCEPT !.parent = 2, !.lineno = 2, !.end_lineno = 4, !.name = <<"B","u","m","p">>, !.defaults = <<"Dict">>],
         [BlankNode("Global") EXCEPT !.parent = 3, !.lineno = 3, !.end_lineno = 3],
         [BlankNode("AugAssign") EXCEPT !.parent = 3, !.lineno = 4, !.end_lineno = 4, !.target = "Name", !.op = "Add"]>>)

\* '\ndef complex_function(x, y, z):\n    if x > 0:\n        if y > 0...'
NestedIfsSnippet ==
    ParsedSnippet(
        <<"\n","d","e","f"," ","c","o","m","p","l","e","x","_","f","u","n","c","t","i","o",
          "n","(","x",","," ","y",","," ","z",")",":","\n"," "," "," "," ","i","f",
          " ","x"," ",">"," ","0",":","\n"," "," "," "," "," "," "," "," ","i","f",
          " ","y"," ",">"," ","0",":","\n"," "," "," "," "," "," "," "," "," "," ",
          " "," ","i","f"," ","z"," ",">"," ","0",":","\n"," "," "," "," "," "," ",
          " "," "," "," "," "," "," "," "," "," ","i","f"," ","x"," ",">"," ","y",
          ":","\n"," "," "," "," "," "," "," "," "," "," "," "," "," "," "," "," ",
          " "," "," "," ","i","f"," ","y"," ",">"," ","z",":","\n"," "," "," "," ",
          " "," "," "," "," "," "," "," "," "," "," "," "," "," "," "," "," "," ",
          " "," ","i","f"," ","z"," ",">"," ","1",":","\n"," "," "," "," "," "," ",
          " "," "," "," "," "," "," "," "," "," "," "," "," "," "," "," "," "," ",
          " "," "," "," ","r","e","t","u","r","n"," ","T","r","u","e","\n"," "," ",
          " "," ","r","e","t","u","r","n"," ","F","a","l","s","e","\n">>,
        <<BlankNode("Module"),
         [BlankNode("FunctionDef") EXCEPT !.parent = 1, !.lineno = 2, !.end_lineno = 10, !.name = <<"c","o","m","p","l","e","x","_","f","u","n","c","t","i","o","n">>],
         [BlankNode("If") EXCEPT !.parent = 2, !.lineno = 3, !.end_lineno = 9],
         [BlankNode("If") EXCEPT !.parent = 3, !.lineno = 4, !.end_lineno = 9],
         [BlankNode("If") EXCEPT !.parent = 4, !.lineno = 5, !.end_lineno = 9],
         [BlankNode("If") EXCEPT !.parent = 5, !.lineno = 6, !.end_lineno = 9],
         [BlankNode("If") EXCEPT !.parent = 6, !.lineno = 7, !.end_lineno = 9],
         [BlankNode("If") EXCEPT !.parent = 7, !.lineno = 8, !.end_lineno = 9]>>)

\* 'def f(a):\n    return a and a and a and a and a and a and a and a...'
ComplexityTenSnippet ==
    ParsedSnippet(
        <<"d","e","f"," ","f","(","a",")",":","\n"," "," "," "," ","r","e","t","u","r","n",
          " ","a"," ","a","n","d"," ","a"," ","a","n","d"," ","a"," ","a","n","d",
          " ","a"," ","a","n","d"," ","a"," ","a","n","d"," ","a"," ","a","n","d",
          " ","a"," ","a","n","d"," ","a"," ","a","n","d"," ","a"," ","a","n","d",
          " ","a">>,
        <<BlankNode("Module"),
         [BlankNode("FunctionDef") EXCEPT !.parent = 1, !.lineno = 1, !.end_lineno = 2, !.name = <<"f">>],
         [BlankNode("BoolOp") EXCEPT !.parent = 2, !.lineno = 2, !.end_lineno = 2, !.nvalues = 10]>>)

\* 'x = 1111111111111111111111111111111111111111111111111111111111111...'
LongLineSnippet ==
    ParsedSnippet(
        <<"x"," ","="," ","1","1","1","1","1","1","1","1","1","1","1","1","1","1","1","1",
          "1","1","1","1","1","1","1","1","1","1","1","1","1","1","1","1","1","1",
          "1","1","1","1","1","1","1","1","1","1","1","1","1","1","1","1","1","1",
          "1","1","1","1","1","1","1","1","1","1","1","1","1","1","1","1","1","1",
          "1","1","1","1","1","1","1","1","1","1","1","1","1","1","1","1","1","1",
          "1","1","1","1","1","1","1","1","1","1","1","1","1","1","1","1","1","1",
          "1","1","1","1","1","1","1","1","1","1","1","1","1","1","1","1","1","1",
          "1","1","1","1","1","1","1","1","1","1","1","1","1","1","1","1","1","1",
          "1","1","1","1","1","1","1","1">>,
        <<BlankNode("Module"),
         [BlankNode("Assign") EXCEPT !.parent = 1, !.lineno = 1, !.end_lineno = 1, !.targets = <<NameTarget(<<"x">>)>>]>>)

\* 'x = 1111111111111111111111111111111111111111111111111111111111111...'
Line120Snippet ==
    ParsedSnippet(
        <<"x"," ","="," ","1","1","1","1","1","1","1","1","1","1","1","1","1","1","1","1",
          "1","1","1","1","1","1","1","1","1","1","1","1","1","1","1","1","1","1",
          "1","1","1","1","1","1","1","1","1","1","1","1","1","1","1","1","1","1",
          "1","1","1","1","1","1","1","1","1","1","1","1","1","1","1","1","1","1",
          "1","1","1","1","1","1","1","1","1","1","1","1","1","1","1","1","1","1",
          "1","1","1","1","1","1","1","1","1","1","1","1","1","1","1","1","1","1",
          "1","1","1","1","1","1","1","1","1","1">>,
        <<BlankNode("Module"),
         [BlankNode("Assign") EXCEPT !.parent = 1, !.lineno = 1, !.end_lineno = 1, !.targets = <<NameTarget(<<"x">>)>>]>>)

\* 'x = 1111111111111111111111111111111111111111111111111111111111111...'
Line121Snippet ==
    ParsedSnippet(
        <<"x"," ","="," ","1","1","1","1","1","1","1","1","1","1","1","1","1","1","1","1",
          "1","1","1","1","1","1","1","1","1","1","1","1","1","1","1","1","1","1",
          "1","1","1","1","1","1","1","1","1","1","1","1","1","1","1","1","1","1",
          "1","1","1","1","1","1","1","1","1","1","1","1","1","1","1","1","1","1",
          "1","1","1","1","1","1","1","1","1","1","1","1","1","1","1","1","1","1",
          "1","1","1","1","1","1","1","1","1","1","1","1","1","1","1","1","1","1",
          "1","1","1","1","1","1","1","1","1","1","1">>,
        <<BlankNode("Module"),
         [BlankNode("Assign") EXCEPT !.parent = 1, !.lineno = 1, !.end_lineno = 1, !.targets = <<NameTarget(<<"x">>)>>]>>)

\* 'def A():\n    def B():\n        pass\ndef C():\n    pass'
NestedFunctionsSnippet ==
    ParsedSnippet(
        <<"d","e","f"," ","A","(",")",":","\n"," "," "," "," ","d","e","f"," ","B","(",")",
          ":","\n"," "," "," "," "," "," "," "," ","p","a","s","s","\n","d","e","f",
          " ","C","(",")",":","\n"," "," "," "," ","p","a","s","s">>,
        <<BlankNode("Module"),
         [BlankNode("FunctionDef") EXCEPT !.parent = 1, !.lineno = 1, !.end_lineno = 3, !.name = <<"A">>],
         [BlankNode("FunctionDef") EXCEPT !.parent = 2, !.lineno = 2, !.end_lineno = 3, !.name = <<"B">>],
         [BlankNode("FunctionDef") EXCEPT !.parent = 1, !.lineno = 4, !.end_lineno = 5, !.name = <<"C">>]>>)

\* 'def f():\n 0\n 0\n 0\n 0\n 0\n 0\n 0\n 0\n 0\n 0\n 0\n 0\n 0\n 0\...'
Span50Snippet ==
    ParsedSnippet(
        <<"d","e","f"," ","f","(",")",":","\n"," ","0","\n"," ","0","\n"," ","0","\n"," ",
          "0","\n"," ","0","\n"," ","0","\n"," ","0","\n"," ","0","\n"," ","0","\n",
          " ","0","\n"," ","0","\n"," ","0","\n"," ","0","\n"," ","0","\n"," ","0",
          "\n"," ","0","\n"," ","0","\n"," ","0","\n"," ","0","\n"," ","0","\n"," ",
          "0","\n"," ","0","\n"," ","0","\n"," ","0","\n"," ","0","\n"," ","0","\n",
          " ","0","\n"," ","0","\n"," ","0","\n"," ","0","\n"," ","0","\n"," ","0",
          "\n"," ","0","\n"," ","0","\n"," ","0","\n"," ","0","\n"," ","0","\n"," ",
          "0","\n"," ","0","\n"," ","0","\n"," ","0","\n"," ","0","\n"," ","0","\n",
          " ","0","\n"," ","0","\n"," ","0","\n"," ","0","\n"," ","0","\n"," ","0">>,
        <<BlankNode("Module"),
         [BlankNode("FunctionDef") EXCEPT !.parent = 1, !.lineno = 1, !.end_lineno = 50, !.name = <<"f">>]>>)

\* 'def f():\n 0\n 0\n 0\n 0\n 0\n 0\n 0\n 0\n 0\n 0\n 0\n 0\n 0\n 0\...'
Span51Snippet ==
    ParsedSnippet(
        <<"d","e","f"," ","f","(",")",":","\n"," ","0","\n"," ","0","\n"," ","0","\n"," ",
          "0","\n"," ","0","\n"," ","0","\n"," ","0","\n"," ","0","\n"," ","0","\n",
          " ","0","\n"," ","0","\n"," ","0","\n"," ","0","\n"," ","0","\n"," ","0",
          "\n"," ","0","\n"," ","0","\n"," ","0","\n"," ","0","\n"," ","0","\n"," ",
          "0","\n"," ","0","\n"," ","0","\n"," ","0","\n"," ","0","\n"," ","0","\n",
          " ","0","\n"," ","0","\n"," ","0","\n"," ","0","\n"," ","0","\n"," ","0",
          "\n"," ","0","\n"," ","0","\n"," ","0","\n"," ","0","\n"," ","0","\n"," ",
          "0","\n"," ","0","\n"," ","0","\n"," ","0","\n"," ","0","\n"," ","0","\n",
          " ","0","\n"," ","0","\n"," ","0","\n"," ","0","\n"," ","0","\n"," ","0",
          "\n"," ","0">>,
        <<BlankNode("Module"),
         [BlankNode("FunctionDef") EXCEPT !.parent = 1, !.lineno = 1, !.end_lineno = 51, !.name = <<"f">>]>>)

\* 'def f():\n 0\n 0\n 0\n 0\n 0\n 0\n 0\n 0\n 0\n 0\n 0\n 0\n 0\n 0\...'
Span52Snippet ==
    ParsedSnippet(
        <<"d","e","f"," ","f","(",")",":","\n"," ","0","\n"," ","0","\n"," ","0","\n"," ",
          "0","\n"," ","0","\n"," ","0","\n"," ","0","\n"," ","0","\n"," ","0","\n",
          " ","0","\n"," ","0","\n"," ","0","\n"," ","0","\n"," ","0","\n"," ","0",
          "\n"," ","0","\n"," ","0","\n"," ","0","\n"," ","0","\n"," ","0","\n"," ",
          "0","\n"," ","0","\n"," ","0","\n"," ","0","\n"," ","0","\n"," ","0","\n",
          " ","0","\n"," ","0","\n"," ","0","\n"," ","0","\n"," ","0","\n"," ","0",
          "\n"," ","0","\n"," ","0","\n"," ","0","\n"," ","0","\n"," ","0","\n"," ",
          "0","\n"," ","0","\n"," ","0","\n"," ","0","\n"," ","0","\n"," ","0","\n",
          " ","0","\n"," ","0","\n"," ","0","\n"," ","0","\n"," ","0","\n"," ","0",
          "\n"," ","0","\n"," ","0">>,
        <<BlankNode("Module"),
         [BlankNode("FunctionDef") EXCEPT !.parent = 1, !.lineno = 1, !.end_lineno = 52, !.name = <<"f">>]>>)

\* 'for i in a:\n    a.b += 1\n    x += 1\n    y += 2'
TwoAddsInLoopSnippet ==
    ParsedSnippet(
        <<"f","o","r"," ","i"," ","i","n"," ","a",":","\n"," "," "," "," ","a",".","b"," ",
          "+","="," ","1","\n"," "," "," "," ","x"," ","+","="," ","1","\n"," "," ",
          " "," ","y"," ","+","="," ","2">>,
        <<BlankNode("Module"),
         [BlankNode("For") EXCEPT !.parent = 1, !.lineno = 1, !.end_lineno = 4],
         [BlankNode("AugAssign") EXCEPT !.parent = 2, !.lineno = 2, !.end_lineno = 2, !.target = "Attribute", !.op = "Add"],
         [BlankNode("AugAssign") EXCEPT !.parent = 2, !.lineno = 3, !.end_lineno = 3, !.target = "Name", !.op = "Add"],
         [BlankNode("AugAssign") EXCEPT !.parent = 2, !.lineno = 4, !.end_lineno = 4, !.target = "Name", !.op = "Add"]>>)

\* 'while a:\n    for i in b:\n        x += i'
NestedLoopsSnippet ==
    ParsedSnippet(
        <<"w","h","i","l","e"," ","a",":","\n"," "," "," "," ","f","o","r"," ","i"," ","i",
          "n"," ","b",":","\n"," "," "," "," "," "," "," "," ","x"," ","+","="," ",
          "i">>,
        <<BlankNode("Module"),
         [BlankNode("While") EXCEPT !.parent = 1, !.lineno = 1, !.end_lineno = 3],
         [BlankNode("For") EXCEPT !.parent = 2, !.lineno = 2, !.end_lineno = 3],
         [BlankNode("AugAssign") EXCEPT !.parent = 3, !.lineno = 3, !.end_lineno = 3, !.target = "Name", !.op = "Add"]>>)

\* 'x=1 if a == b else 2'
CompoundElsewhereSnippet ==
    ParsedSnippet(
        <<"x","=","1"," ","i","f"," ","a"," ","=","="," ","b"," ","e","l","s","e"," ","2">>,
        <<BlankNode("Module"),
         [BlankNode("Assign") EXCEPT !.parent = 1, !.lineno = 1, !.end_lineno = 1, !.targets = <<NameTarget(<<"x">>)>>]>>)

\* 'if a:\n    x=1; y=2'
IndentedTwoAssignsSnippet ==
    ParsedSnippet(
        <<"i","f"," ","a",":","\n"," "," "," "," ","x","=","1",";"," ","y","=","2">>,
        <<BlankNode("Module"),
         [BlankNode("If") EXCEPT !.parent = 1, !.lineno = 1, !.end_lineno = 2],
         [BlankNode("Assign") EXCEPT !.parent = 2, !.lineno = 2, !.end_lineno = 2, !.targets = <<NameTarget(<<"x">>)>>],
         [BlankNode("Assign") EXCEPT !.parent = 2, !.lineno = 2, !.end_lineno = 2, !.targets = <<NameTarget(<<"y">>)>>]>>)

\* snippets at the limits of the checkers' conditions
BoundarySnippets ==
    {NestedIfsSnippet, ComplexityTenSnippet, LongLineSnippet,
     Line120Snippet, Line121Snippet, NestedFunctionsSnippet,
     Span50Snippet, Span51Snippet, Span52Snippet,
     TwoAddsInLoopSnippet, NestedLoopsSnippet, CompoundElsewhereSnippet,
     IndentedTwoAssignsSnippet}

\* 'def HTTPServer():\n    pass'
AcronymFunctionSnippet ==
    ParsedSnippet(
        <<"d","e","f"," ","H","T","T","P","S","e","r","v","e","r","(",")",":","\n"," "," ",
          " "," ","p","a","s","s">>,
        <<BlankNode("Module"),
         [BlankNode("FunctionDef") EXCEPT !.parent = 1, !.lineno = 1, !.end_lineno = 2, !.name = <<"H","T","T","P","S","e","r","v","e","r">>]>>)

\* 'def _Private1():\n    pass'
UnderscoreUpperFunctionSnippet ==
    ParsedSnippet(
        <<"d","e","f"," ","_","P","r","i","v","a","t","e","1","(",")",":","\n"," "," "," ",
          " ","p","a","s","s">>,
        <<BlankNode("Module"),
         [BlankNode("FunctionDef") EXCEPT !.parent = 1, !.lineno = 1, !.end_lineno = 2, !.name = <<"_","P","r","i","v","a","t","e","1">>]>>)

\* 'class my__class_a:\n    pass'
SnakeClassSnippet ==
    ParsedSnippet(
        <<"c","l","a","s","s"," ","m","y","_","_","c","l","a","s","s","_","a",":","\n"," ",
          " "," "," ","p","a","s","s">>,
        <<BlankNode("Module"),
         [BlankNode("ClassDef") EXCEPT !.parent = 1, !.lineno = 1, !.end_lineno = 2, !.name = <<"m","y","_","_","c","l","a","s","s","_","a">>]>>)

\* 'class myClass:\n    pass'
CamelClassSnippet ==
    ParsedSnippet(
        <<"c","l","a","s","s"," ","m","y","C","l","a","s","s",":","\n"," "," "," "," ","p",
          "a","s","s">>,
        <<BlankNode("Module"),
         [BlankNode("ClassDef") EXCEPT !.parent = 1, !.lineno = 1, !.end_lineno = 2, !.name = <<"m","y","C","l","a","s","s">>]>>)

\* 'class _:\n    pass'
UnderscoreClassSnippet ==
    ParsedSnippet(
        <<"c","l","a","s","s"," ","_",":","\n"," "," "," "," ","p","a","s","s">>,
        <<BlankNode("Module"),
         [BlankNode("ClassDef") EXCEPT !.parent = 1, !.lineno = 1, !.end_lineno = 2, !.name = <<"_">>]>>)

\* 'class _1a:\n    pass'
DigitWordClassSnippet ==
    ParsedSnippet(
        <<"c","l","a","s","s"," ","_","1","a",":","\n"," "," "," "," ","p","a","s","s">>,
        <<BlankNode("Module"),
         [BlankNode("ClassDef") EXCEPT !.parent = 1, !.lineno = 1, !.end_lineno = 2, !.name = <<"_","1","a">>]>>)

\* 'x = y = 1\nMAX = 2\nab = 3\n_ = 4\nX = 5\na.b = 6\nx, z = 7, 8'
AssignTargetsSnippet ==
    ParsedSnippet(
        <<"x"," ","="," ","y"," ","="," ","1","\n","M","A","X"," ","="," ","2","\n","a","b",
          " ","="," ","3","\n","_"," ","="," ","4","\n","X"," ","="," ","5","\n",
          "a",".","b"," ","="," ","6","\n","x",","," ","z"," ","="," ","7",","," ",
          "8">>,
        <<BlankNode("Module"),
         [BlankNode("Assign") EXCEPT !.parent = 1, !.lineno = 1, !.end_lineno = 1, !.targets = <<NameTarget(<<"x">>),NameTarget(<<"y">>)>>],
         [BlankNode("Assign") EXCEPT !.parent = 1, !.lineno = 2, !.end_lineno = 2, !.targets = <<NameTarget(<<"M","A","X">>)>>],
         [BlankNode("Assign") EXCEPT !.parent = 1, !.lineno = 3, !.end_lineno = 3, !.targets = <<NameTarget(<<"a","b">>)>>],
         [BlankNode("Assign") EXCEPT !.parent = 1, !.lineno = 4, !.end_lineno = 4, !.targets = <<NameTarget(<<"_">>)>>],
         [BlankNode("Assign") EXCEPT !.parent = 1, !.lineno = 5, !.end_lineno = 5, !.targets = <<NameTarget(<<"X">>)>>],
         [BlankNode("Assign") EXCEPT !.parent = 1, !.lineno = 6, !.end_lineno = 6, !.targets = <<OtherTarget("Attribute")>>],
         [BlankNode("Assign") EXCEPT !.parent = 1, !.lineno = 7, !.end_lineno = 7, !.targets = <<OtherTarget("Tuple")>>]>>)

\* 'def f(a=[]):\n    global g; global h\n    try:\n        g = a\n  ...'
GlobalWithOthersSnippet ==
    ParsedSnippet(
        <<"d","e","f"," ","f","(","a","=","[","]",")",":","\n"," "," "," "," ","g","l","o",
          "b","a","l"," ","g",";"," ","g","l","o","b","a","l"," ","h","\n"," "," ",
          " "," ","t","r","y",":","\n"," "," "," "," "," "," "," "," ","g"," ","=",
          " ","a","\n"," "," "," "," ","e","x","c","e","p","t",":","\n"," "," "," ",
          " "," "," "," "," ","p","a","s","s">>,
        <<BlankNode("Module"),
         [BlankNode("FunctionDef") EXCEPT !.parent = 1, !.lineno = 1, !.end_lineno = 6, !.name = <<"f">>, !.defaults = <<"List">>],
         [BlankNode("Global") EXCEPT !.parent = 2, !.lineno = 2, !.end_lineno = 2],
         [BlankNode("Global") EXCEPT !.parent = 2, !.lineno = 2, !.end_lineno = 2],
         [BlankNode("Try") EXCEPT !.parent = 2, !.lineno = 3, !.end_lineno = 6],
         [BlankNode("Assign") EXCEPT !.parent = 5, !.lineno = 4, !.end_lineno = 4, !.targets = <<NameTarget(<<"g">>)>>],
         [BlankNode("ExceptHandler") EXCEPT !.parent = 5, !.lineno = 5, !.end_lineno = 6]>>)

\* texts whose names and targets the naming and best-practice checkers read
NamingSnippets ==
    {AcronymFunctionSnippet, UnderscoreUpperFunctionSnippet,
     SnakeClassSnippet, CamelClassSnippet, UnderscoreClassSnippet,
     DigitWordClassSnippet, AssignTargetsSnippet, GlobalWithOthersSnippet}

\* the snippets given to a sequence of calls on one instance
SharedSnippets ==
    {EmptySnippet, BrokenSnippet, NulSnippet, StyleThenBrokenSnippet,
     BadFunctionNameSnippet, BareExceptSnippet, CalculateSumSnippet,
     MutableDefaultSnippet, RequestExampleSnippet, TwoStatementsSnippet,
     AllCheckersSnippet, GlobalInClassSnippet}

----------------------------------------------------------------------------
(* Generated snippets.  The tree checkers never read the text and the      *)
(* style checker never reads the tree (lines 50-54), so a generated tree   *)
(* is paired with texts of as many lines as it spans.                      *)

LastLine(tree) ==
    MaxOf({tree[j].lineno : j \in 1..Len(tree)})

RECURSIVE JoinLines(_)
\* '\n'.join(lines)
JoinLines(lines) ==
    IF lines = <<>> THEN <<>>
    ELSE IF Len(lines) = 1 THEN lines[1]
    ELSE lines[1] \o <<"\n">> \o JoinLines(Tail(lines))

\* first lines a generated text can have, besides the plain one
FirstLinePool ==
    {<<"a", " ">>, <<"a", "=", "1", ";", "b">>}

PlainLine ==
    <<"a">>

\* the texts paired with a tree: as many lines as the tree spans, plain
\* but for the first
TextsOf(tree) ==
    LET n == IF LastLine(tree) = 0 THEN 1 ELSE LastLine(tree)
    IN {JoinLines([i \in 1..n |-> IF i = 1 THEN first ELSE PlainLine]) :
            first \in FirstLinePool \cup {PlainLine}}
       \cup (IF Len(tree) = 1 THEN {<<>>} ELSE {})

GeneratedSnippets ==
    {ParsedSnippet(text, tree) : <<text, tree>> \in
        UNION {TextsOf(tree) \X {tree} : tree \in Trees}}

Snippets ==
    GeneratedSnippets \cup SharedSnippets \cup BoundarySnippets
    \cup NamingSnippets

----------------------------------------------------------------------------
(* The analyzer instance and its callers                                   *)

\* the number of analyze calls made on the shared instance
MaxCalls ==
    2

Callers ==
    1..MaxCalls

VARIABLES
    heap,              \* the list objects: heap[r] is the content of list r
    self_suggestions,  \* the attribute self.suggestions: a reference
    pc,                \* pc[t]: where caller t's analyze call stands
    code_snippet,      \* code_snippet[t]: the argument of the call
    tree,              \* tree[t]: the local variable tree of the call
    result,            \* result[t]: the reference the call returned
    path               \* path[t]: the states the call went through

vars ==
    <<heap, self_suggestions, pc, code_snippet, tree, result, path>>

\* the request handlers of api/routes.py and the module database/connection.py
VARIABLES
    lifespan,          \* where the lifespan of main.py stands
    db_pool,           \* the global _db_pool: None or a pool
    pools,             \* pools[p]: the state of the p-th pool created
    connections,       \* connections[c]: the state of the c-th connection
    analysis_history,  \* the rows of the table analysis_history
    handler,           \* handler[t]: the endpoint request t came to
    at,                \* at[t]: where the handler of request t stands
    conn,              \* conn[t]: the handler's local variable conn
    suggestions_json,  \* suggestions_json[t]: what the handler persists
    total_count,       \* total_count[t]: the handler's local total_count
    response           \* response[t]: what the handler answered

handlerVars ==
    <<lifespan, db_pool, pools, connections, analysis_history, handler, at,
      conn, suggestions_json, total_count, response>>

\* the tasks of crew/tasks.py and the endpoint of api/crew_routes.py
VARIABLES
    tasks,             \* tasks[k]: the k-th task object created
    crew_at,           \* where the crew call under way stands
    crew_locals,       \* the local variables of the crew call under way
    crew_response      \* what the last crew call returned or raised

crewVars ==
    <<tasks, crew_at, crew_locals, crew_response>>

allVars ==
    <<vars, handlerVars, crewVars>>

NoSnippet ==
    FailedSnippet(<<>>, <<>>, NoneValue)

\* after CodeAnalyzer(): __init__ sets self.suggestions = []
Init ==
    /\ heap = << <<>> >>
    /\ self_suggestions = 1
    /\ pc = [t \in Callers |-> "Idle"]
    /\ code_snippet = [t \in Callers |-> NoSnippet]
    /\ tree = [t \in Callers |-> <<>>]
    /\ result = [t \in Callers |-> NoneValue]
    /\ path = [t \in Callers |-> <<>>]
    /\ lifespan = "NotRun"
    /\ db_pool = NoneValue
    /\ pools = <<>>
    /\ connections = <<>>
    /\ analysis_history = <<>>
    /\ handler = [t \in Callers |-> "none"]
    /\ at = [t \in Callers |-> "Idle"]
    /\ conn = [t \in Callers |-> NoneValue]
    /\ suggestions_json = [t \in Callers |-> NoneValue]
    /\ total_count = [t \in Callers |-> 0]
    /\ response = [t \in Callers |-> NoneValue]
    /\ tasks = <<>>
    /\ crew_at = "Idle"
    /\ crew_locals = <<>>
    /\ crew_response = NoneValue

\* ResetSuggestions left out: the attribute keeps the list it names
KeepSuggestions ==
    UNCHANGED <<heap, self_suggestions>>

\* ResetSuggestions with a copy of the list in place of the empty list
CopySuggestions ==
    /\ heap' = Append(heap, heap[self_suggestions])
    /\ self_suggestions' = Len(heap) + 1

\* self.suggestions.clear() in place of the new list
ClearSuggestions ==
    /\ heap' = [heap EXCEPT ![self_suggestions] = <<>>]
    /\ UNCHANGED self_suggestions

\* self.suggestions = []: a new list object, and the attribute names it
ResetSuggestions ==
    /\ heap' = Append(heap, <<>>)
    /\ self_suggestions' = Len(heap) + 1

\* self.suggestions.append(...) for each of items, in order
AppendSuggestions(items) ==
    /\ heap' = [heap EXCEPT ![self_suggestions] = @ \o items]
    /\ UNCHANGED self_suggestions

\* a step of analyze: the call moves on, and nothing outside the analyzer
\* changes
Goto(t, state) ==
    /\ pc' = [pc EXCEPT ![t] = state]
    /\ path' = [path EXCEPT ![t] = Append(@, state)]
    /\ UNCHANGED <<handlerVars, crewVars>>

\* analyze(code_snippet) is entered and line 35 runs
Call(t, snippet) ==
    /\ pc[t] = "Idle"
    /\ code_snippet' = [code_snippet EXCEPT ![t] = snippet]
    /\ ResetSuggestions
    /\ Goto(t, "Start")
    /\ UNCHANGED <<tree, result>>

\* tree = ast.parse(code_snippet) returns
ParseOk(t) ==
    /\ pc[t] = "Start"
    /\ code_snippet[t].ok
    /\ tree' = [tree EXCEPT ![t] = code_snippet[t].tree]
    /\ Goto(t, "Parsed")
    /\ UNCHANGED <<heap, self_suggestions, code_snippet, result>>

\* SyntaxSuggestion with another severity
SyntaxSuggestionMedium(snippet) ==
    Suggestion("syntax", "medium", SyntaxErrorPrefix \o snippet.error_text,
               snippet.error_lineno, NoneValue)

SyntaxSuggestion(snippet) ==
    Suggestion("syntax", "high", SyntaxErrorPrefix \o snippet.error_text,
               snippet.error_lineno, NoneValue)

\* ast.parse raises SyntaxError and the handler appends the suggestion
ParseFail(t) ==
    /\ pc[t] = "Start"
    /\ ~code_snippet[t].ok
    /\ AppendSuggestions(<<SyntaxSuggestion(code_snippet[t])>>)
    /\ Goto(t, "SyntaxFailed")
    /\ UNCHANGED <<code_snippet, tree, result>>

RunNaming(t) ==
    /\ pc[t] = "Parsed"
    /\ AppendSuggestions(CheckNamingConventions(tree[t]))
    /\ Goto(t, "NamingChecked")
    /\ UNCHANGED <<code_snippet, tree, result>>

RunComplexity(t) ==
    /\ pc[t] = "NamingChecked"
    /\ AppendSuggestions(CheckCodeComplexity(tree[t]))
    /\ Goto(t, "ComplexityChecked")
    /\ UNCHANGED <<code_snippet, tree, result>>

RunBestPractices(t) ==
    /\ pc[t] = "ComplexityChecked"
    /\ AppendSuggestions(CheckBestPractices(tree[t]))
    /\ Goto(t, "BestPracticeChecked")
    /\ UNCHANGED <<code_snippet, tree, result>>

RunPerformance(t) ==
    /\ pc[t] = "BestPracticeChecked"
    /\ AppendSuggestions(CheckPerformanceIssues(tree[t]))
    /\ Goto(t, "PerformanceChecked")
    /\ UNCHANGED <<code_snippet, tree, result>>

RunStyle(t) ==
    /\ pc[t] = "PerformanceChecked"
    /\ AppendSuggestions(CheckStyleIssues(code_snippet[t].text))
    /\ Goto(t, "StyleChecked")
    /\ UNCHANGED <<code_snippet, tree, result>>

\* Return with a return ahead of the style checker as well
ReturnBeforeStyle(t) ==
    /\ pc[t] \in {"SyntaxFailed", "PerformanceChecked", "StyleChecked"}
    /\ result' = [result EXCEPT ![t] = Some(self_suggestions)]
    /\ Goto(t, "Done")
    /\ UNCHANGED <<heap, self_suggestions, code_snippet, tree>>

\* Return without the return of the SyntaxError handler, line 47
ReturnAtEndOnly(t) ==
    /\ pc[t] = "StyleChecked"
    /\ result' = [result EXCEPT ![t] = Some(self_suggestions)]
    /\ Goto(t, "Done")
    /\ UNCHANGED <<heap, self_suggestions, code_snippet, tree>>

\* return self.suggestions, at line 47 or at line 56
Return(t) ==
    /\ pc[t] \in {"SyntaxFailed", "StyleChecked"}
    /\ result' = [result EXCEPT ![t] = Some(self_suggestions)]
    /\ Goto(t, "Done")
    /\ UNCHANGED <<heap, self_suggestions, code_snippet, tree>>

\* the steps of a call once entered
Step(t) ==
    \/ ParseOk(t)
    \/ ParseFail(t)
    \/ RunNaming(t)
    \/ RunComplexity(t)
    \/ RunBestPractices(t)
    \/ RunPerformance(t)
    \/ RunStyle(t)
    \/ Return(t)

\* one call of analyze on a new instance, on any snippet
CallOnce ==
    /\ pc[1] = "Idle"
    /\ \E snippet \in Snippets : Call(1, snippet)

Next ==
    \/ CallOnce
    \/ Step(1)

Spec ==
    Init /\ [][Next]_vars

\* sequential calls on one instance, as the request handlers make them:
\* the t-th call is entered once the calls before it have returned
CallInTurn(t) ==
    /\ \A u \in Callers : u < t => pc[u] = "Done"
    /\ \E snippet \in SharedSnippets : Call(t, snippet)

NextShared ==
    \E t \in Callers :
        \/ CallInTurn(t)
        \/ Step(t)

SpecShared ==
    Init /\ [][NextShared]_vars

\* calls from several threads on one instance: a call may be entered
\* while another is under way
CallAnytime(t) ==
    \E snippet \in SharedSnippets : Call(t, snippet)

NextOverlap ==
    \E t \in Callers :
        \/ CallAnytime(t)
        \/ Step(t)

SpecOverlap ==
    Init /\ [][NextOverlap]_vars

\* a call once entered runs to its return: analyze has no blocking
\* operation and no suspension point
SpecFair ==
    Spec /\ WF_vars(Step(1))

----------------------------------------------------------------------------
(* database/connection.py, the lifespan of main.py and the handlers of     *)
(* api/routes.py.  The handlers are coroutines on one event loop: from one *)
(* await to the next a handler runs with no other coroutine in between,    *)
(* and every await of a database operation returns or raises.              *)

\* the texts sent to /analyze-code: code_snippet has min_length=1
RequestSnippets ==
    {RequestExampleSnippet, BrokenSnippet, AllCheckersSnippet}

Endpoints ==
    {"analyze_code", "health_check", "list_all_analyses",
     "get_analysis_history"}

\* the values of limit sent to /history
LimitPool ==
    {0, 101}

\* routes.py line 85
LooksGoodText ==
    <<"C","o","d","e"," ","l","o","o","k","s"," ","g","o","o","d","!"," ",
      "N","o"," ","i","s","s","u","e","s"," ","f","o","u","n","d",".">>

\* routes.py line 91
FoundPrefix ==
    <<"F","o","u","n","d"," ">>

\* routes.py line 91
FoundSuffix ==
    <<" ","s","u","g","g","e","s","t","i","o","n","(","s",")",":"," ">>

\* routes.py line 94
HighPriorityText ==
    <<" ","h","i","g","h"," ","p","r","i","o","r","i","t","y">>

\* routes.py line 96
MediumPriorityText ==
    <<" ","m","e","d","i","u","m"," ","p","r","i","o","r","i","t","y">>

\* routes.py line 98
LowPriorityText ==
    <<" ","l","o","w"," ","p","r","i","o","r","i","t","y">>

\* ", ".join(parts)
JoinParts(parts) ==
    Concat([k \in 1..Len(parts) |->
        IF k = 1 THEN parts[k] ELSE <<",", " ">> \o parts[k]])

\* sum(1 for s in suggestions if s.severity == severity)
SeverityCount(suggestions, severity) ==
    Cardinality({k \in 1..Len(suggestions) :
                    suggestions[k].severity = severity})

\* f"{count} high priority" and the like, when count > 0
PriorityPart(suggestions, severity, text) ==
    IF SeverityCount(suggestions, severity) > 0
    THEN <<IntToText(SeverityCount(suggestions, severity)) \o text>>
    ELSE <<>>

\* the summary of analyze_code
Summary(suggestions) ==
    IF suggestions = <<>> THEN LooksGoodText
    ELSE FoundPrefix \o IntToText(Len(suggestions)) \o FoundSuffix
         \o JoinParts(PriorityPart(suggestions, "high", HighPriorityText)
                      \o PriorityPart(suggestions, "medium",
                                      MediumPriorityText)
                      \o PriorityPart(suggestions, "low", LowPriorityText))

\* CodeAnalysisResponse(...) of analyze_code, without its time
CodeAnalysisResponse(analysis_id, text, suggestions) ==
    [status_code |-> 200, analysis_id |-> analysis_id,
     code_snippet |-> text, suggestions |-> suggestions,
     summary |-> Summary(suggestions),
     has_suggestions |-> Len(suggestions) > 0]

\* HealthResponse(...) of health_check, without its time
HealthResponse(db_status) ==
    [status_code |-> 200,
     status |-> IF db_status = "connected" THEN "ok" ELSE "degraded",
     database |-> db_status]

\* the dictionary list_all_analyses returns, without the rows
ListResponse(total, limit, rows) ==
    LET clamped == IF limit > 100 THEN 100
                   ELSE IF limit < 1 THEN 1 ELSE limit
    IN [status_code |-> 200, total |-> total, limit |-> clamped,
        count |-> IF rows < clamped THEN rows ELSE clamped]

\* the dictionary get_analysis_history returns
HistoryResponse(analysis_id, row) ==
    [status_code |-> 200, id |-> analysis_id,
     code_snippet |-> row.code_snippet, suggestions |-> row.suggestions]

\* raise HTTPException(status_code=...)
HTTPException(status_code) ==
    [status_code |-> status_code]

\* no other handler is between two awaits
LoopFree(t) ==
    \A u \in Callers \ {t} : at[u] # "Entered"

\* the awaits of init_db: create_pool (line 22), the acquire of the async
\* with (line 30), and the two executes in it (lines 31-44)
InitDbAwaits ==
    {"create_pool", "init_acquire", "execute"}

\* where init_db stands after the await it was at returned (ok) or raised
InitDbNext(await, ok) ==
    IF ~ok THEN "raised"
    ELSE CASE await = "create_pool" -> "init_acquire"
           [] await = "init_acquire" -> "execute"
           [] await = "execute" -> "returned"

\* what init_db does when the await it was at returns: line 22 stores the
\* new pool in _db_pool; the connection of the async with is released by
\* the block and is not kept
InitDbResumes(await, ok) ==
    IF await = "create_pool" /\ ok
    THEN /\ pools' = Append(pools, "open")
         /\ db_pool' = Some(Len(pools) + 1)
    ELSE UNCHANGED <<pools, db_pool>>

\* lifespan: await init_db() is entered when the server starts, before any
\* request is served
LifespanStartup ==
    /\ lifespan = "NotRun"
    /\ \A t \in Callers : at[t] = "Idle"
    /\ lifespan' = "create_pool"
    /\ UNCHANGED <<vars, crewVars, db_pool, pools, connections,
                   analysis_history, handler, at, conn, suggestions_json,
                   total_count, response>>

\* lifespan: init_db goes on; when it raises the server does not start
LifespanInitDb ==
    /\ lifespan \in InitDbAwaits
    /\ \E ok \in BOOLEAN :
           /\ InitDbResumes(lifespan, ok)
           /\ lifespan' = CASE InitDbNext(lifespan, ok) = "raised" -> "Failed"
                            [] InitDbNext(lifespan, ok) = "returned" -> "Serving"
                            [] OTHER -> InitDbNext(lifespan, ok)
    /\ UNCHANGED <<vars, crewVars, connections, analysis_history, handler, at,
                   conn, suggestions_json, total_count, response>>

\* lifespan: close_db() when the server stops, once no request is under way
LifespanShutdown ==
    /\ lifespan = "Serving"
    /\ \A t \in Callers : at[t] \in {"Idle", "Responded"}
    /\ lifespan' = "Closed"
    /\ pools' = IF db_pool = NoneValue THEN pools
                ELSE [pools EXCEPT ![db_pool[1]] = "closed"]
    /\ UNCHANGED <<vars, crewVars, db_pool, connections, analysis_history,
                   handler, at, conn, suggestions_json, total_count,
                   response>>

\* a request comes to an endpoint and its handler is entered
Arrive(t) ==
    /\ at[t] = "Idle"
    /\ \A u \in Callers : u < t => at[u] # "Idle"
    /\ LoopFree(t)
    /\ lifespan \in {"NotRun", "Serving"}
    /\ \E endpoint \in Endpoints :
           handler' = [handler EXCEPT ![t] = endpoint]
    /\ at' = [at EXCEPT ![t] = "Entered"]
    /\ UNCHANGED <<vars, crewVars, lifespan, db_pool, pools, connections,
                   analysis_history, conn, suggestions_json, total_count,
                   response>>

\* analyze_code, line 58: code_analyzer.analyze(request.code_snippet) is
\* entered on the shared analyzer
AnalyzeCodeCall(t) ==
    /\ at[t] = "Entered"
    /\ handler[t] = "analyze_code"
    /\ \E snippet \in RequestSnippets : Call(t, snippet)

\* analyze_code, line 58: the call runs on
AnalyzeCodeStep(t) ==
    /\ at[t] = "Entered"
    /\ handler[t] = "analyze_code"
    /\ Step(t)

\* get_db_connection up to its first await: the create_pool of init_db
\* when _db_pool is not set (lines 60-61), the acquire of line 62 when it is
GetDbConnection(t) ==
    /\ at[t] = "Entered"
    /\ handler[t] = "analyze_code" => pc[t] = "Done"
    /\ at' = [at EXCEPT ![t] = IF db_pool = NoneValue THEN "create_pool"
                               ELSE "acquire"]
    /\ UNCHANGED <<vars, crewVars, lifespan, db_pool, pools, connections,
                   analysis_history, handler, conn, suggestions_json,
                   total_count, response>>

\* the answer of a handler whose try block was left by an exception
ErrorResponse(t) ==
    IF handler[t] = "health_check" THEN HealthResponse("error")
    ELSE HTTPException(500)

\* an exception leaves get_db_connection: conn was not bound, and the
\* handler's except clause answers
RaisedInGetDbConnection(t) ==
    /\ response' = [response EXCEPT ![t] = Some(ErrorResponse(t))]
    /\ at' = [at EXCEPT ![t] = "Responded"]

\* an operation on conn raises: health_check goes to its except clause
\* (lines 134-135); the other handlers run their finally clause, await
\* conn.close(), before their except clause answers
RaisedOnConn(t) ==
    /\ response' = [response EXCEPT ![t] = Some(ErrorResponse(t))]
    /\ at' = [at EXCEPT ![t] = IF handler[t] = "health_check"
                               THEN "Responded" ELSE "close"]

\* the handler's answer is worked out and await conn.close() is reached
Answer(t, value) ==
    /\ response' = [response EXCEPT ![t] = Some(value)]
    /\ at' = [at EXCEPT ![t] = "close"]

\* get_db_connection, line 61: the init_db it called goes on; when init_db
\* returns, line 62 is reached
InitDb(t) ==
    /\ at[t] \in InitDbAwaits
    /\ LoopFree(t)
    /\ \E ok \in BOOLEAN :
           /\ InitDbResumes(at[t], ok)
           /\ IF InitDbNext(at[t], ok) = "raised"
              THEN RaisedInGetDbConnection(t)
              ELSE /\ at' = [at EXCEPT ![t] =
                                IF InitDbNext(at[t], ok) = "returned"
                                THEN "acquire" ELSE InitDbNext(at[t], ok)]
                   /\ UNCHANGED response
    /\ UNCHANGED <<vars, crewVars, lifespan, connections, analysis_history,
                   handler, conn, suggestions_json, total_count>>

\* get_db_connection, line 62: await _db_pool.acquire() returns a
\* connection of the pool _db_pool names now, and the handler binds conn
\* and runs to its next await; or it raises
Acquire(t) ==
    /\ at[t] = "acquire"
    /\ LoopFree(t)
    /\ \E ok \in BOOLEAN :
           IF ok
           THEN /\ connections' = Append(connections,
                                     [pool |-> db_pool[1], state |-> "open"])
                /\ conn' = [conn EXCEPT ![t] = Some(Len(connections) + 1)]
                /\ suggestions_json' =
                       [suggestions_json EXCEPT ![t] =
                           IF handler[t] = "analyze_code"
                           THEN Some(heap[result[t][1]]) ELSE @]
                /\ at' = [at EXCEPT ![t] =
                             IF handler[t] \in {"analyze_code",
                                                "get_analysis_history"}
                             THEN "fetchrow" ELSE "fetchval"]
                /\ UNCHANGED response
           ELSE /\ RaisedInGetDbConnection(t)
                /\ UNCHANGED <<connections, conn, suggestions_json>>
    /\ UNCHANGED <<vars, crewVars, lifespan, db_pool, pools,
                   analysis_history, handler, total_count>>

\* analyze_code, lines 73-108: the INSERT returns and the response is made
\* of the local variable suggestions; or the INSERT raises
AnalyzeCodeInsert(t) ==
    /\ at[t] = "fetchrow"
    /\ handler[t] = "analyze_code"
    /\ LoopFree(t)
    /\ \E ok \in BOOLEAN :
           IF ok
           THEN /\ analysis_history' =
                       Append(analysis_history,
                              [code_snippet |-> code_snippet[t].text,
                               suggestions |-> suggestions_json[t][1]])
                /\ Answer(t, CodeAnalysisResponse(
                                 Len(analysis_history) + 1,
                                 code_snippet[t].text,
                                 heap[result[t][1]]))
           ELSE /\ RaisedOnConn(t)
                /\ UNCHANGED analysis_history
    /\ UNCHANGED <<vars, crewVars, lifespan, db_pool, pools, connections,
                   handler, conn, suggestions_json, total_count>>

\* health_check, lines 131-133: SELECT 1 returns or raises
HealthCheckSelect(t) ==
    /\ at[t] = "fetchval"
    /\ handler[t] = "health_check"
    /\ LoopFree(t)
    /\ \E ok \in BOOLEAN :
           IF ok THEN Answer(t, HealthResponse("connected"))
           ELSE RaisedOnConn(t)
    /\ UNCHANGED <<vars, crewVars, lifespan, db_pool, pools, connections,
                   analysis_history, handler, conn, suggestions_json,
                   total_count>>

\* list_all_analyses, line 181: the count returns or raises
ListCount(t) ==
    /\ at[t] = "fetchval"
    /\ handler[t] = "list_all_analyses"
    /\ LoopFree(t)
    /\ \E ok \in BOOLEAN :
           IF ok
           THEN /\ total_count' = [total_count EXCEPT ![t] =
                                      Len(analysis_history)]
                /\ at' = [at EXCEPT ![t] = "fetch"]
                /\ UNCHANGED response
           ELSE /\ RaisedOnConn(t)
                /\ UNCHANGED total_count
    /\ UNCHANGED <<vars, crewVars, lifespan, db_pool, pools, connections,
                   analysis_history, handler, conn, suggestions_json>>

\* list_all_analyses, lines 196-214: the rows return or the query raises
ListFetch(t) ==
    /\ at[t] = "fetch"
    /\ LoopFree(t)
    /\ \E ok \in BOOLEAN, limit \in LimitPool :
           IF ok
           THEN Answer(t, ListResponse(total_count[t], limit,
                                       Len(analysis_history)))
           ELSE RaisedOnConn(t)
    /\ UNCHANGED <<vars, crewVars, lifespan, db_pool, pools, connections,
                   analysis_history, handler, conn, suggestions_json,
                   total_count>>

\* get_analysis_history, lines 242-255: the row of analysis_id returns, or
\* no row does (404), or the query raises
HistoryFetchrow(t) ==
    /\ at[t] = "fetchrow"
    /\ handler[t] = "get_analysis_history"
    /\ LoopFree(t)
    /\ \E ok \in BOOLEAN, analysis_id \in Callers :
           IF ~ok THEN RaisedOnConn(t)
           ELSE IF analysis_id <= Len(analysis_history)
                THEN Answer(t, HistoryResponse(analysis_id,
                                   analysis_history[analysis_id]))
                ELSE Answer(t, HTTPException(404))
    /\ UNCHANGED <<vars, crewVars, lifespan, db_pool, pools, connections,
                   analysis_history, handler, conn, suggestions_json,
                   total_count>>

\* await conn.close() returns and the handler answers
Close(t) ==
    /\ at[t] = "close"
    /\ LoopFree(t)
    /\ connections' = [connections EXCEPT ![conn[t][1]].state = "closed"]
    /\ at' = [at EXCEPT ![t] = "Responded"]
    /\ UNCHANGED <<vars, crewVars, lifespan, db_pool, pools,
                   analysis_history, handler, conn, suggestions_json,
                   total_count, response>>

NextServer ==
    \/ LifespanStartup
    \/ LifespanInitDb
    \/ LifespanShutdown
    \/ \E t \in Callers :
           \/ Arrive(t)
           \/ AnalyzeCodeCall(t)
           \/ AnalyzeCodeStep(t)
           \/ GetDbConnection(t)
           \/ InitDb(t)
           \/ Acquire(t)
           \/ AnalyzeCodeInsert(t)
           \/ HealthCheckSelect(t)
           \/ ListCount(t)
           \/ ListFetch(t)
           \/ HistoryFetchrow(t)
           \/ Close(t)

SpecServer ==
    Init /\ [][NextServer]_allVars

----------------------------------------------------------------------------
(* crew/tasks.py and the execute endpoint of api/crew_routes.py.  The      *)
(* task objects are tasks[1], tasks[2], ...; the calls under way are the   *)
(* frames of crew_locals, the innermost first, and crew_at is the line the *)
(* innermost stands at.  Identifiers and times of creation are left out.   *)

\* the largest number of task objects created
MaxTasks ==
    4

\* the keys of AVAILABLE_TASKS
AVAILABLE_TASKS ==
    [code_analysis |-> "CodeAnalysisTask",
     documentation |-> "DocumentationTask",
     test_generation |-> "TestGenerationTask",
     code_review |-> "CodeReviewTask"]

\* the task types a caller asks for: the registered ones and another
TaskTypes ==
    DOMAIN AVAILABLE_TASKS \cup {"translation"}

\* the texts given to tasks
CrewSnippets ==
    {RequestExampleSnippet.text, BrokenSnippet.text}

\* hasattr(task, 'execute')
HasExecute(task) ==
    task.class = "CodeAnalysisTask"

\* hasattr(task, 'execute_all')
HasExecuteAll(task) ==
    task.class = "CodeReviewTask"

\* a task object after its __init__; only CodeAnalysisTask has result and
\* only CodeReviewTask has include_docs, include_tests and subtasks
NewTask(class, text) ==
    [class |-> class, code_snippet |-> text, status |-> "pending",
     result |-> NoneValue, include_docs |-> FALSE, include_tests |-> FALSE,
     subtasks |-> <<>>]

\* the objects CodeReviewTask(...) creates, itself first: __init__ and
\* _create_subtasks; base is the number of objects there were
NewReview(text, include_docs, include_tests, base) ==
    LET subs == <<NewTask("CodeAnalysisTask", text)>>
                \o (IF include_docs
                    THEN <<NewTask("DocumentationTask", text)>> ELSE <<>>)
                \o (IF include_tests
                    THEN <<NewTask("TestGenerationTask", text)>> ELSE <<>>)
    IN <<[NewTask("CodeReviewTask", text) EXCEPT
             !.include_docs = include_docs,
             !.include_tests = include_tests,
             !.subtasks = [k \in 1..Len(subs) |-> base + 1 + k]]>>
       \o subs

\* the objects AVAILABLE_TASKS[task_type](**kwargs) creates, the task
\* itself first
Construct(task_type, text, include_docs, include_tests, base) ==
    IF task_type = "code_review"
    THEN NewReview(text, include_docs, include_tests, base)
    ELSE <<NewTask(AVAILABLE_TASKS[task_type], text)>>

\* the dictionary execute stores in self.result
AnalysisResult(text) ==
    [status |-> "completed", message |-> "Code analysis completed",
     endpoint |-> "POST /analyze-code", data |-> [code_snippet |-> text]]

\* task.to_dict() of a task that is not a review; class stands for the
\* description and the agent_role, which are fixed texts of the class
PlainToDict(task) ==
    IF task.class = "CodeAnalysisTask"
    THEN [class |-> task.class, code_snippet |-> task.code_snippet,
          status |-> task.status, result |-> task.result]
    ELSE [class |-> task.class, status |-> task.status]

\* tasks[k].to_dict()
ToDict(k) ==
    IF tasks[k].class = "CodeReviewTask"
    THEN [class |-> tasks[k].class, status |-> tasks[k].status,
          include_docs |-> tasks[k].include_docs,
          include_tests |-> tasks[k].include_tests,
          subtasks |-> [j \in 1..Len(tasks[k].subtasks) |->
                           PlainToDict(tasks[tasks[k].subtasks[j]])]]
    ELSE PlainToDict(tasks[k])

\* the frame of a call of fn on the task self
Frame(fn, self) ==
    [fn |-> fn, self |-> self, i |-> 1, results |-> <<>>,
     result |-> NoneValue, task_type |-> NoneValue, request |-> NoneValue]

\* the innermost call under way
Top ==
    Head(crew_locals)

SetStatus(k, status) ==
    tasks' = [tasks EXCEPT ![k].status = status]

\* a call is entered from the line crew_at of the call under way, or from
\* outside when none is; what a call from outside returns or raises is
\* kept in crew_response with the name of the function called
Enter(fn, self, line) ==
    /\ crew_locals' = <<Frame(fn, self)>> \o crew_locals
    /\ crew_at' = line

\* the innermost call returns value: to the loop of execute_all (lines
\* 203-204), to execute_task (lines 161-163), or to the caller outside
ReturnValue(value) ==
    LET callers == Tail(crew_locals)
    IN IF callers = <<>>
       THEN /\ crew_locals' = <<>>
            /\ crew_at' = "Idle"
            /\ crew_response' = Some([fn |-> Top.fn, returned |-> value])
       ELSE /\ crew_locals' =
                   <<IF Head(callers).fn = "execute_all"
                     THEN [Head(callers) EXCEPT
                              !.results = Append(@, value), !.i = @ + 1]
                     ELSE [Head(callers) EXCEPT !.result = Some(value)]>>
                   \o Tail(callers)
            /\ crew_at' = IF Head(callers).fn = "execute_all"
                          THEN "execute_all:201" ELSE "execute_task:167"
            /\ UNCHANGED crew_response

\* create_task(task_type, code_snippet=..., ...) called from outside
CreateTask ==
    /\ crew_at = "Idle"
    /\ \E task_type \in TaskTypes, text \in CrewSnippets,
          include_docs \in BOOLEAN, include_tests \in BOOLEAN :
           IF task_type \notin DOMAIN AVAILABLE_TASKS
           THEN /\ crew_response' = Some([fn |-> "create_task",
                                         raised |-> "ValueError"])
                /\ UNCHANGED tasks
           ELSE LET objects == Construct(task_type, text, include_docs,
                                         include_tests, Len(tasks))
                IN /\ Len(tasks) + Len(objects) <= MaxTasks
                   /\ tasks' = tasks \o objects
                   /\ crew_response' =
                          Some([fn |-> "create_task",
                                returned |-> Len(tasks) + 1])
    /\ UNCHANGED <<vars, handlerVars, crew_at, crew_locals>>

\* task.execute() called from outside on a task that has the method
CallExecute ==
    /\ crew_at = "Idle"
    /\ \E k \in 1..Len(tasks) :
           /\ HasExecute(tasks[k])
           /\ Enter("execute", k, "execute:60")
    /\ UNCHANGED <<vars, handlerVars, tasks, crew_response>>

\* execute, line 60: self.status = TaskStatus.IN_PROGRESS
ExecuteLine60 ==
    /\ crew_at = "execute:60"
    /\ SetStatus(Top.self, "in_progress")
    /\ crew_at' = "execute:63"
    /\ UNCHANGED <<vars, handlerVars, crew_locals, crew_response>>

\* execute, lines 63-70: self.result = {...}
ExecuteLine63 ==
    /\ crew_at = "execute:63"
    /\ tasks' = [tasks EXCEPT ![Top.self].result =
                    Some(AnalysisResult(tasks[Top.self].code_snippet))]
    /\ crew_at' = "execute:72"
    /\ UNCHANGED <<vars, handlerVars, crew_locals, crew_response>>

\* execute without line 72: the status stays as line 60 set it
ExecuteLine72Skipped ==
    /\ crew_at = "execute:72"
    /\ crew_at' = "execute:73"
    /\ UNCHANGED <<vars, handlerVars, tasks, crew_locals, crew_response>>

\* execute, line 72: self.status = TaskStatus.COMPLETED
ExecuteLine72 ==
    /\ crew_at = "execute:72"
    /\ SetStatus(Top.self, "completed")
    /\ crew_at' = "execute:73"
    /\ UNCHANGED <<vars, handlerVars, crew_locals, crew_response>>

\* execute, line 73: return self.result
ExecuteLine73 ==
    /\ crew_at = "execute:73"
    /\ ReturnValue(tasks[Top.self].result[1])
    /\ UNCHANGED <<vars, handlerVars, tasks>>

\* task.execute_all() called from outside on a review
CallExecuteAll ==
    /\ crew_at = "Idle"
    /\ \E k \in 1..Len(tasks) :
           /\ HasExecuteAll(tasks[k])
           /\ Enter("execute_all", k, "execute_all:198")
    /\ UNCHANGED <<vars, handlerVars, tasks, crew_response>>

\* execute_all, lines 198-199: the status is set and results is empty
ExecuteAllLine198 ==
    /\ crew_at = "execute_all:198"
    /\ SetStatus(Top.self, "in_progress")
    /\ crew_at' = "execute_all:201"
    /\ UNCHANGED <<vars, handlerVars, crew_locals, crew_response>>

\* execute_all, lines 201-203: the next subtask is executed when it has
\* the method execute and passed over when it has not; after the last
\* one, line 206 is reached
ExecuteAllLine201 ==
    /\ crew_at = "execute_all:201"
    /\ LET subtasks == tasks[Top.self].subtasks
       IN IF Top.i > Len(subtasks)
          THEN /\ crew_at' = "execute_all:206"
               /\ UNCHANGED crew_locals
          ELSE IF HasExecute(tasks[subtasks[Top.i]])
               THEN Enter("execute", subtasks[Top.i], "execute:60")
               ELSE /\ crew_locals' = <<[Top EXCEPT !.i = @ + 1]>>
                                      \o Tail(crew_locals)
                    /\ UNCHANGED crew_at
    /\ UNCHANGED <<vars, handlerVars, tasks, crew_response>>

\* execute_all, lines 206-207: the status is set and results returned
ExecuteAllLine206 ==
    /\ crew_at = "execute_all:206"
    /\ SetStatus(Top.self, "completed")
    /\ ReturnValue(Top.results)
    /\ UNCHANGED <<vars, handlerVars>>

\* the body of a request: TaskCreateRequest
TaskCreateRequest(text, include_docs, include_tests) ==
    [code_snippet |-> text, include_docs |-> include_docs,
     include_tests |-> include_tests]

\* the answer to a request for a task type that is not registered
TaskTypeNotFound(task_type) ==
    [status_code |-> 400, detail |-> <<"Task type not found", task_type>>]

\* POST /crew/tasks/{task_type}/execute: execute_task is called with the
\* path parameter and the body, when the objects it creates fit
ExecuteTaskCall ==
    /\ crew_at = "Idle"
    /\ \E task_type \in TaskTypes, text \in CrewSnippets,
          include_docs \in BOOLEAN, include_tests \in BOOLEAN :
           /\ task_type \in DOMAIN AVAILABLE_TASKS =>
                  Len(tasks) + Len(Construct(task_type, text, include_docs,
                                             include_tests, Len(tasks)))
                      <= MaxTasks
           /\ crew_locals' =
                  <<[Frame("execute_task", 0) EXCEPT
                        !.task_type = Some(task_type),
                        !.request = Some(TaskCreateRequest(
                                        text, include_docs, include_tests))]>>
           /\ crew_at' = "execute_task:158"
    /\ UNCHANGED <<vars, handlerVars, tasks, crew_response>>

\* execute_task, lines 148-158: create_task makes the task or raises
\* ValueError, which the handler answers with status 400 (lines 173-177);
\* include_docs and include_tests are given to a code_review only
ExecuteTaskLine158 ==
    /\ crew_at = "execute_task:158"
    /\ LET task_type == Top.task_type[1]
           request == Top.request[1]
       IN IF task_type \notin DOMAIN AVAILABLE_TASKS
          THEN /\ crew_response' = Some(TaskTypeNotFound(task_type))
               /\ crew_locals' = Tail(crew_locals)
               /\ crew_at' = "Idle"
               /\ UNCHANGED tasks
          ELSE /\ tasks' = tasks \o
                       Construct(task_type, request.code_snippet,
                                 request.include_docs, request.include_tests,
                                 Len(tasks))
               /\ crew_locals' = <<[Top EXCEPT !.self = Len(tasks) + 1]>>
                                  \o Tail(crew_locals)
               /\ crew_at' = "execute_task:161"
               /\ UNCHANGED crew_response
    /\ UNCHANGED <<vars, handlerVars>>

\* execute_task, lines 161-166: execute, or else execute_all, or else the
\* message that there is no execution method
ExecuteTaskLine161 ==
    /\ crew_at = "execute_task:161"
    /\ IF HasExecute(tasks[Top.self])
       THEN Enter("execute", Top.self, "execute:60")
       ELSE IF HasExecuteAll(tasks[Top.self])
            THEN Enter("execute_all", Top.self, "execute_all:198")
            ELSE /\ crew_locals' =
                        <<[Top EXCEPT !.result = Some([message |->
                            "Task created but no execution method available"])]>>
                        \o Tail(crew_locals)
                 /\ crew_at' = "execute_task:167"
    /\ UNCHANGED <<vars, handlerVars, tasks, crew_response>>

\* execute_task, lines 168-172: the response
ExecuteTaskLine167 ==
    /\ crew_at = "execute_task:167"
    /\ crew_response' = Some([status_code |-> 200,
                              message |-> "Task executed successfully",
                              task |-> ToDict(Top.self),
                              result |-> Top.result[1]])
    /\ crew_locals' = Tail(crew_locals)
    /\ crew_at' = "Idle"
    /\ UNCHANGED <<vars, handlerVars, tasks>>

NextCrew ==
    \/ CreateTask
    \/ CallExecute
    \/ ExecuteLine60
    \/ ExecuteLine63
    \/ ExecuteLine72
    \/ ExecuteLine73
    \/ CallExecuteAll
    \/ ExecuteAllLine198
    \/ ExecuteAllLine201
    \/ ExecuteAllLine206
    \/ ExecuteTaskCall
    \/ ExecuteTaskLine158
    \/ ExecuteTaskLine161
    \/ ExecuteTaskLine167

SpecCrew ==
    Init /\ [][NextCrew]_allVars

----------------------------------------------------------------------------
(* Properties                                                              *)

\* the list caller t's call returned, as it is now
Returned(t) ==
    heap[result[t][1]]

Done(t) ==
    pc[t] = "Done"

\* what analyze returns on a new instance (lines 35-56 with nothing
\* before them)
FreshResult(snippet) ==
    IF ~snippet.ok THEN <<SyntaxSuggestion(snippet)>>
    ELSE CheckNamingConventions(snippet.tree)
         \o CheckCodeComplexity(snippet.tree)
         \o CheckBestPractices(snippet.tree)
         \o CheckPerformanceIssues(snippet.tree)
         \o CheckStyleIssues(snippet.text)

\* C1: a call on a text that does not parse returns a list of exactly one
\* suggestion, of type "syntax" and severity "high"
SyntaxErrorYieldsOneSuggestion ==
    \A t \in Callers :
        Done(t) /\ ~code_snippet[t].ok =>
            /\ result[t] # NoneValue
            /\ Len(Returned(t)) = 1
            /\ Returned(t)[1].type = "syntax"
            /\ Returned(t)[1].severity = "high"

\* a call on a text that does not parse, with style findings in the text,
\* has returned
SyntaxErrorReturned ==
    /\ Done(1)
    /\ ~code_snippet[1].ok
    /\ CheckStyleIssues(code_snippet[1].text) # <<>>
    /\ Len(Returned(1)) = 1

\* C2: a call on a text that parses returns no suggestion of type "syntax"
ParsedYieldsNoSyntaxSuggestion ==
    \A t \in Callers :
        Done(t) /\ code_snippet[t].ok =>
            \A i \in 1..Len(Returned(t)) : Returned(t)[i].type # "syntax"

\* a call on a text that parses has returned suggestions of three checkers
ParsedReturnedSuggestions ==
    /\ Done(1)
    /\ code_snippet[1].ok
    /\ {"style", "best_practice", "performance"}
           \subseteq {Returned(1)[i].type : i \in 1..Len(Returned(1))}

ParsedPath ==
    <<"Start", "Parsed", "NamingChecked", "ComplexityChecked",
      "BestPracticeChecked", "PerformanceChecked", "StyleChecked", "Done">>

SyntaxFailedPath ==
    <<"Start", "SyntaxFailed", "Done">>

IsPrefix(p, q) ==
    Len(p) <= Len(q) /\ p = SubSeq(q, 1, Len(p))

\* C3: a call goes through Start, Parsed, NamingChecked, ComplexityChecked,
\* BestPracticeChecked, PerformanceChecked, StyleChecked, Done, each once
\* and in that order, and then returns the naming, complexity,
\* best-practice, performance and style suggestions in that order; or it
\* goes through Start, SyntaxFailed, Done and returns the syntax suggestion
\* alone, no checker having run
CallFollowsOneOfTwoPaths ==
    \A t \in Callers :
        /\ IsPrefix(path[t], ParsedPath) \/ IsPrefix(path[t], SyntaxFailedPath)
        /\ Done(t) /\ path[t] = ParsedPath =>
               /\ code_snippet[t].ok
               /\ Returned(t) = CheckNamingConventions(tree[t])
                                \o CheckCodeComplexity(tree[t])
                                \o CheckBestPractices(tree[t])
                                \o CheckPerformanceIssues(tree[t])
                                \o CheckStyleIssues(code_snippet[t].text)
        /\ Done(t) /\ path[t] = SyntaxFailedPath =>
               /\ ~code_snippet[t].ok
               /\ Returned(t) = <<SyntaxSuggestion(code_snippet[t])>>

\* a call has returned on a snippet for which each of the five checkers
\* has a suggestion
AllFiveCheckersReported ==
    /\ Done(1)
    /\ path[1] = ParsedPath
    /\ CheckNamingConventions(tree[1]) # <<>>
    /\ CheckCodeComplexity(tree[1]) # <<>>
    /\ CheckBestPractices(tree[1]) # <<>>
    /\ CheckPerformanceIssues(tree[1]) # <<>>
    /\ CheckStyleIssues(code_snippet[1].text) # <<>>

\* C4: in a sequence of calls on one instance, what each call returned is
\* what its snippet gives on a new instance
SequentialCallsAreIndependent ==
    \A t \in Callers :
        Done(t) => Returned(t) = FreshResult(code_snippet[t])

\* a call that returned a syntax suggestion was followed by a call on a
\* snippet that parses, which has returned
SecondCallAfterSyntaxError ==
    /\ Done(1) /\ ~code_snippet[1].ok
    /\ Done(2) /\ code_snippet[2].ok
    /\ Returned(2) # <<>>

\* C5: two calls on the same text return equal lists
SameTextSameResult ==
    \A t, u \in Callers :
        Done(t) /\ Done(u) /\ code_snippet[t].text = code_snippet[u].text =>
            Returned(t) = Returned(u)

\* two calls on the same text have returned, with suggestions
SameTextAnalyzedTwice ==
    /\ Done(1) /\ Done(2)
    /\ code_snippet[1].text = code_snippet[2].text
    /\ Len(Returned(1)) > 1

\* C6: when calls on one instance overlap, each returns the suggestion
\* list of its own snippet
OverlappingCallsAreIsolated ==
    \A t \in Callers :
        Done(t) => Returned(t) = FreshResult(code_snippet[t])

FunctionDefinitions(nodes) ==
    {i \in 1..Len(nodes) :
        nodes[i].kind \in {"FunctionDef", "AsyncFunctionDef"}}

\* name matches ^[a-z_][a-z0-9_]*$, read off the pattern
MatchesSnakePattern(name) ==
    /\ name # <<>>
    /\ \A k \in 1..Len(name) :
           \/ name[k] \in LowerLetters \cup {"_"}
           \/ k > 1 /\ name[k] \in Digits

\* a style suggestion of severity medium at the line, with the name and
\* "snake_case" in its message
IsSnakeCaseReport(sugg, name, lineno) ==
    /\ sugg.type = "style"
    /\ sugg.severity = "medium"
    /\ sugg.line = Some(lineno)
    /\ Contains(sugg.message, name)
    /\ Contains(sugg.message, SnakeCaseWord)

\* C8: for every function definition of a text that parses, the result
\* has exactly one suggestion of type "style" and severity "medium" for it
\* whose message contains its name and "snake_case" when the name neither
\* matches ^[a-z_][a-z0-9_]*$ nor starts with two underscores, and no such
\* suggestion when the name matches or starts with two underscores
EveryMisnamedFunctionIsReported ==
    \A t \in Callers :
        Done(t) /\ code_snippet[t].ok =>
            \A i \in FunctionDefinitions(tree[t]) :
                LET node == tree[t][i]
                IN Cardinality({k \in 1..Len(Returned(t)) :
                       IsSnakeCaseReport(Returned(t)[k], node.name,
                                         node.lineno)})
                   = IF MatchesSnakePattern(node.name)
                        \/ StartsWith(node.name, <<"_", "_">>)
                     THEN 0 ELSE 1

\* a best_practice suggestion of severity high at the line, with "bare"
\* in its message whatever the case
IsBareReport(sugg, lineno) ==
    /\ sugg.type = "best_practice"
    /\ sugg.severity = "high"
    /\ sugg.line = Some(lineno)
    /\ Contains(Lower(sugg.message), BareWord)

\* C9: for every exception handler of a text that parses, the result has
\* one suggestion of type "best_practice" and severity "high" for it whose
\* message contains "bare" when the handler names no exception type, and
\* none when it names one
BareHandlersAreReported ==
    \A t \in Callers :
        Done(t) /\ code_snippet[t].ok =>
            \A i \in 1..Len(tree[t]) :
                tree[t][i].kind = "ExceptHandler" =>
                    Cardinality({k \in 1..Len(Returned(t)) :
                        IsBareReport(Returned(t)[k], tree[t][i].lineno)})
                    = IF tree[t][i].type = NoneValue THEN 1 ELSE 0

\* a call has returned on a text with a handler that names no exception
\* type, and the result has the suggestion for it
BareHandlerReported ==
    /\ Done(1)
    /\ \E i \in 1..Len(tree[1]) :
           /\ tree[1][i].kind = "ExceptHandler"
           /\ tree[1][i].type = NoneValue
           /\ \E k \in 1..Len(Returned(1)) :
                  IsBareReport(Returned(1)[k], tree[1][i].lineno)

\* the default values of a function's parameters: those of the positional
\* parameters and those of the keyword-only ones
ParameterDefaults(node) ==
    node.defaults \o node.kw_defaults

\* a best_practice suggestion of severity high at the line, with the name
\* in its message
IsMutableDefaultReport(sugg, name, lineno) ==
    /\ sugg.type = "best_practice"
    /\ sugg.severity = "high"
    /\ sugg.line = Some(lineno)
    /\ Contains(sugg.message, name)

\* C10: for every function definition of a text that parses, the result
\* has as many suggestions of type "best_practice" and severity "high"
\* naming the function as the function has parameters whose default value
\* is a list, dict or set literal
EveryMutableDefaultIsReported ==
    \A t \in Callers :
        Done(t) /\ code_snippet[t].ok =>
            \A i \in FunctionDefinitions(tree[t]) :
                LET node == tree[t][i]
                IN Cardinality({k \in 1..Len(Returned(t)) :
                       IsMutableDefaultReport(Returned(t)[k], node.name,
                                              node.lineno)})
                   = Cardinality({k \in 1..Len(ParameterDefaults(node)) :
                         ParameterDefaults(node)[k]
                             \in {"List", "Dict", "Set"}})

\* a complexity suggestion of severity high at the line
IsHighComplexityReport(sugg, lineno) ==
    /\ sugg.type = "complexity"
    /\ sugg.severity = "high"
    /\ sugg.line = Some(lineno)

RECURSIVE OperandsBeyondFirst(_, _)
\* N - 1 summed over the boolean expressions, of N operands each, among
\* the nodes S
OperandsBeyondFirst(nodes, S) ==
    IF S = {} THEN 0
    ELSE LET j == CHOOSE x \in S : TRUE
         IN (IF nodes[j].kind = "BoolOp" THEN nodes[j].nvalues - 1 ELSE 0)
            + OperandsBeyondFirst(nodes, S \ {j})

\* 1, plus the if, loop and handler nodes of the subtree of node i, plus
\* N - 1 for each of its boolean expressions
BranchCount(nodes, i) ==
    1 + Cardinality({j \in Descendants(nodes, i) :
                        nodes[j].kind \in {"If", "For", "While",
                                           "ExceptHandler"}})
      + OperandsBeyondFirst(nodes, Descendants(nodes, i))

\* the complexity of every function of a parsed text is its branch count
ComplexityIsBranchCount ==
    \A t \in Callers :
        pc[t] \notin {"Idle", "Start", "SyntaxFailed"} /\ code_snippet[t].ok =>
            \A i \in 1..Len(tree[t]) :
                tree[t][i].kind = "FunctionDef" =>
                    CalculateComplexity(tree[t], i) = BranchCount(tree[t], i)

\* the step of the complexity checker leaves the tree as it is and the
\* suggestions already in the list in place, adding complexity
\* suggestions only
ComplexityStepKeepsState ==
    \A t \in Callers :
        pc[t] = "NamingChecked" /\ pc'[t] = "ComplexityChecked" =>
            /\ tree' = tree
            /\ self_suggestions' = self_suggestions
            /\ IsPrefix(heap[self_suggestions], heap'[self_suggestions])
            /\ \A k \in (Len(heap[self_suggestions]) + 1)
                           ..Len(heap'[self_suggestions]) :
                   heap'[self_suggestions][k].type = "complexity"

LinesOf(t) ==
    SplitStr(code_snippet[t].text, "\n")

\* a style suggestion of severity low at the line, with "exceeds" in its
\* message
IsLineLengthReport(sugg, lineno) ==
    /\ sugg.type = "style"
    /\ sugg.severity = "low"
    /\ sugg.line = Some(lineno)
    /\ Contains(sugg.message, ExceedsWord)

\* C13: on a text that parses, the result has a style suggestion of
\* severity low with "exceeds" in its message for line i if and only if
\* line i has more than 120 characters
LongLinesAreReported ==
    \A t \in Callers :
        Done(t) /\ code_snippet[t].ok =>
            \A i \in 1..Len(LinesOf(t)) :
                (\E k \in 1..Len(Returned(t)) :
                     IsLineLengthReport(Returned(t)[k], i))
                <=> Len(LinesOf(t)[i]) > 120

\* a call has returned on a text with a line of 121 characters, and the
\* result has the suggestion for it
Line121Reported ==
    /\ Done(1)
    /\ code_snippet[1].ok
    /\ \E i \in 1..Len(LinesOf(1)) :
           /\ Len(LinesOf(1)[i]) = 121
           /\ \E k \in 1..Len(Returned(1)) :
                  IsLineLengthReport(Returned(1)[k], i)

\* C14: a call on the empty text goes through Parsed and the five checkers
\* to Done and returns the empty list
EmptyTextYieldsEmptyList ==
    \A t \in Callers :
        /\ pc[t] # "Idle" /\ code_snippet[t].text = <<>> =>
               IsPrefix(path[t], ParsedPath)
        /\ Done(t) /\ code_snippet[t].text = <<>> =>
               /\ result[t] # NoneValue
               /\ Returned(t) = <<>>

\* a call on the empty text has returned
EmptyTextReturned ==
    /\ Done(1)
    /\ code_snippet[1] = EmptySnippet
    /\ path[1] = ParsedPath
    /\ result[1] # NoneValue

SuggestionTypes ==
    {"style", "performance", "complexity", "best_practice", "readability",
     "syntax"}

Severities ==
    {"low", "medium", "high"}

\* C15: every suggestion of every returned list has one of the six types
\* and one of the three severities
SuggestionsAreWellTyped ==
    \A t \in Callers :
        Done(t) =>
            \A k \in 1..Len(Returned(t)) :
                /\ Returned(t)[k].type \in SuggestionTypes
                /\ Returned(t)[k].severity \in Severities

\* a call has returned suggestions of four types and of the three
\* severities
ManyTypesReturned ==
    /\ Done(1)
    /\ {"style", "performance", "complexity", "best_practice"}
           \subseteq {Returned(1)[k].type : k \in 1..Len(Returned(1))}
    /\ Severities = {Returned(1)[k].severity : k \in 1..Len(Returned(1))}

RECURSIVE PreOrderFrom(_, _)
\* node i and its descendants in pre-order: a node before its descendants,
\* the descendants of a child before the next child
PreOrderFrom(nodes, i) ==
    LET below == Children(nodes, i)
    IN <<i>> \o Concat([k \in 1..Len(below) |-> PreOrderFrom(nodes, below[k])])

\* the suggestions of the naming checker for the nodes taken in pre-order
NamingInPreOrder(nodes) ==
    LET order == PreOrderFrom(nodes, 1)
    IN Concat([k \in 1..Len(order) |-> NamingOfNode(nodes[order[k]])])

\* C16: the suggestions of the naming checker, which come first in the
\* result, are in pre-order of the nodes they are about
NamingSuggestionsInPreOrder ==
    \A t \in Callers :
        Done(t) /\ code_snippet[t].ok =>
            IsPrefix(NamingInPreOrder(tree[t]), Returned(t))

\* the number of lines from the first line of a node through its last
LineSpan(node) ==
    node.end_lineno - node.lineno + 1

\* a complexity suggestion of severity medium at the line whose message
\* states the count of lines
IsTooLongReport(sugg, lineno, count) ==
    /\ sugg.type = "complexity"
    /\ sugg.severity = "medium"
    /\ sugg.line = Some(lineno)
    /\ Contains(sugg.message, <<"(">> \o IntToText(count) \o <<" ", "l", "i", "n", "e", "s", ")">>)

\* C17: a function gets a complexity suggestion of severity medium, whose
\* message states the number of lines the function spans, if and only if
\* it spans more than 50 lines
LongFunctionsAreReported ==
    \A t \in Callers :
        Done(t) /\ code_snippet[t].ok =>
            \A i \in 1..Len(tree[t]) :
                tree[t][i].kind = "FunctionDef" =>
                    ((\E k \in 1..Len(Returned(t)) :
                          IsTooLongReport(Returned(t)[k], tree[t][i].lineno,
                                          LineSpan(tree[t][i])))
                     <=> LineSpan(tree[t][i]) > 50)

\* a performance suggestion of severity medium at the line
IsLoopReport(sugg, lineno) ==
    /\ sugg.type = "performance"
    /\ sugg.severity = "medium"
    /\ sugg.line = Some(lineno)

\* the augmented adds to a simple name in the subtree of node i
NameAddsBelow(nodes, i) ==
    {j \in Descendants(nodes, i) :
        /\ nodes[j].kind = "AugAssign"
        /\ nodes[j].op = "Add"
        /\ nodes[j].target = "Name"}

\* C18: for every for or while loop the result has exactly one performance
\* suggestion of severity medium when the loop's subtree has at least one
\* augmented add to a simple name, however many it has and whatever other
\* augmented adds come before, and none when it has no such assignment;
\* a loop inside a loop is counted as well as the outer loop
LoopsAreReportedOnce ==
    \A t \in Callers :
        Done(t) /\ code_snippet[t].ok =>
            \A i \in 1..Len(tree[t]) :
                tree[t][i].kind \in {"For", "While"} =>
                    Cardinality({k \in 1..Len(Returned(t)) :
                        IsLoopReport(Returned(t)[k], tree[t][i].lineno)})
                    = IF NameAddsBelow(tree[t], i) # {} THEN 1 ELSE 0

\* a call has returned on a loop with two augmented adds to a name after
\* an augmented add to an attribute, with one suggestion for the loop
LoopWithTwoAddsReported ==
    /\ Done(1)
    /\ code_snippet[1].ok
    /\ \E i \in 1..Len(tree[1]) :
           /\ tree[1][i].kind = "For"
           /\ Cardinality(NameAddsBelow(tree[1], i)) = 2
           /\ \E j \in Descendants(tree[1], i) :
                  /\ tree[1][j].kind = "AugAssign"
                  /\ tree[1][j].target = "Attribute"
                  /\ \A n \in NameAddsBelow(tree[1], i) : j < n
           /\ \E k \in 1..Len(Returned(1)) :
                  IsLoopReport(Returned(1)[k], tree[1][i].lineno)

\* the = at position p of the line is not part of ==, !=, <=, >=, +=, -=,
\* *= or /=
IsBareEquals(line, p) ==
    /\ line[p] = "="
    /\ p > 1 => line[p - 1] \notin {"=", "!", "<", ">", "+", "-", "*", "/"}
    /\ p < Len(line) => line[p + 1] # "="

\* the = at position p has a word character right next to it on one side
\* and on the other side a character that is neither a space nor =
IsUnspacedEquals(line, p) ==
    /\ 1 < p /\ p < Len(line)
    /\ IsBareEquals(line, p)
    /\ \/ line[p - 1] \in WordChars /\ line[p + 1] \notin SpaceChars \cup {"="}
       \/ line[p + 1] \in WordChars /\ line[p - 1] \notin SpaceChars \cup {"="}

\* a style suggestion of severity low at the line about missing spaces
IsMissingSpacesReport(sugg, lineno) ==
    /\ sugg.type = "style"
    /\ sugg.severity = "low"
    /\ sugg.line = Some(lineno)
    /\ Contains(sugg.message, MissingSpacesWord)

\* C19: every line of a text that parses with a bare = next to a word
\* character and no space around it gets a style suggestion of severity
\* low about missing spaces, whatever else the line contains
UnspacedEqualsIsReported ==
    \A t \in Callers :
        Done(t) /\ code_snippet[t].ok =>
            \A i \in 1..Len(LinesOf(t)) :
                (\E p \in 1..Len(LinesOf(t)[i]) :
                     IsUnspacedEquals(LinesOf(t)[i], p))
                => \E k \in 1..Len(Returned(t)) :
                       IsMissingSpacesReport(Returned(t)[k], i)

\* the line with a space put on each side of the first unspaced bare =,
\* and nothing else changed
FirstEqualsSpaced(line) ==
    LET p == CHOOSE q \in 1..Len(line) :
                 /\ IsUnspacedEquals(line, q)
                 /\ \A r \in 1..(q - 1) : ~IsUnspacedEquals(line, r)
    IN SubSeq(line, 1, p - 1) \o <<" ", "=", " ">>
       \o SubSeq(line, p + 1, Len(line))

\* C20: the suggested_fix of a missing-spaces suggestion is the line with
\* spaces put around its first unspaced bare = and every other character,
\* later = signs and indentation included, as it was
MissingSpacesFixIsFirstEqualsSpaced ==
    \A t \in Callers :
        Done(t) /\ code_snippet[t].ok =>
            \A k \in 1..Len(Returned(t)) :
                \A i \in 1..Len(LinesOf(t)) :
                    IsMissingSpacesReport(Returned(t)[k], i) =>
                        Returned(t)[k].suggested_fix
                            = Some(FirstEqualsSpaced(LinesOf(t)[i]))

RECURSIVE UnderscoredFrom(_, _)
\* the characters of name from position k on, each uppercase letter that
\* is not the first character of name replaced by "_" and its lowercase
UnderscoredFrom(name, k) ==
    IF k > Len(name) THEN <<>>
    ELSE (IF k > 1 /\ name[k] \in UpperLetters THEN <<"_">> ELSE <<>>)
         \o <<IF name[k] \in UpperLetters THEN LowerMap[name[k]]
                ELSE name[k]>>
         \o UnderscoredFrom(name, k + 1)

\* the message quotes the name
QuotesName(sugg, name) ==
    Contains(sugg.message, <<"'">> \o name \o <<"'">>)

\* the snake_case suggestion for the function of that name at the line
IsSnakeCaseReportOf(sugg, name, lineno) ==
    /\ IsSnakeCaseReport(sugg, name, lineno)
    /\ QuotesName(sugg, name)

MatchesPascalPattern(name) ==
    /\ name # <<>>
    /\ name[1] \in UpperLetters
    /\ \A k \in 1..Len(name) :
           name[k] \in UpperLetters \cup LowerLetters \cup Digits

\* the words of name between underscores, each with its first character
\* in uppercase and the others in lowercase, concatenated
CapitalizedWords(name) ==
    Concat([k \in 1..Len(name) |->
        IF name[k] = "_" THEN <<>>
        ELSE IF k = 1 \/ name[k - 1] = "_" THEN <<UpperChar(name[k])>>
        ELSE <<LowerChar(name[k])>>])

\* the PascalCase suggestion for the class of that name at the line
IsPascalCaseReportOf(sugg, name, lineno) ==
    /\ sugg.type = "style"
    /\ sugg.severity = "medium"
    /\ sugg.line = Some(lineno)
    /\ Contains(sugg.message, PascalCaseWord)
    /\ QuotesName(sugg, name)

\* C22: a class definition whose name does not match ^[A-Z][a-zA-Z0-9]*$
\* gets one style/medium suggestion recommending PascalCase whose
\* suggested_fix is "class " + p + ":", p being the name split on
\* underscores with each word capitalized and the words concatenated, and
\* p matches ^[A-Z][a-zA-Z0-9]*$; a class whose name matches gets none
ClassFixIsPascalCase ==
    \A t \in Callers :
        Done(t) /\ code_snippet[t].ok =>
            \A i \in 1..Len(tree[t]) :
                tree[t][i].kind = "ClassDef" =>
                    LET node == tree[t][i]
                        p == CapitalizedWords(node.name)
                        reports == {k \in 1..Len(Returned(t)) :
                                       IsPascalCaseReportOf(Returned(t)[k],
                                           node.name, node.lineno)}
                    IN IF MatchesPascalPattern(node.name)
                       THEN reports = {}
                       ELSE /\ Cardinality(reports) = 1
                            /\ \A k \in reports :
                                   Returned(t)[k].suggested_fix
                                   = Some(<<"c", "l", "a", "s", "s", " ">>
                                          \o p \o <<":">>)
                            /\ MatchesPascalPattern(p)

\* the targets of the simple assignments of a tree that are names, as
\* pairs of node and position in the node's targets
NameTargets(nodes) ==
    UNION {{<<i, j>> : j \in {x \in DOMAIN nodes[i].targets :
                                 nodes[i].targets[x].class = "Name"}} :
              i \in {x \in 1..Len(nodes) : nodes[x].kind = "Assign"}}

\* a readability suggestion of severity low at the line that names the
\* target
IsDescriptiveReport(sugg, name, lineno) ==
    /\ sugg.type = "readability"
    /\ sugg.severity = "low"
    /\ sugg.line = Some(lineno)
    /\ QuotesName(sugg, name)

\* C23: the readability/low suggestions naming a target at a line are as
\* many as the targets of that name in the simple assignments of that
\* line when the name is a single lowercase letter, and none when the
\* name is longer than one character (all-uppercase or not) or is not a
\* lowercase letter
SingleLetterTargetsAreReported ==
    \A t \in Callers :
        Done(t) /\ code_snippet[t].ok =>
            \A ij \in NameTargets(tree[t]) :
                LET lineno == tree[t][ij[1]].lineno
                    name == tree[t][ij[1]].targets[ij[2]].id
                    same == {xy \in NameTargets(tree[t]) :
                                /\ tree[t][xy[1]].lineno = lineno
                                /\ tree[t][xy[1]].targets[xy[2]].id = name}
                IN Cardinality({k \in 1..Len(Returned(t)) :
                       IsDescriptiveReport(Returned(t)[k], name, lineno)})
                   = IF Len(name) = 1 /\ name[1] \in LowerLetters
                     THEN Cardinality(same) ELSE 0

\* a call returned the suggestions for 'x = y = 1' (one for x, one for y)
\* and none for MAX, ab, _ and X
TwoTargetsReported ==
    \E t \in Callers :
        /\ Done(t)
        /\ code_snippet[t] = AssignTargetsSnippet
        /\ \E k \in 1..Len(Returned(t)) :
               IsDescriptiveReport(Returned(t)[k], <<"x">>, 1)
        /\ \E k \in 1..Len(Returned(t)) :
               IsDescriptiveReport(Returned(t)[k], <<"y">>, 1)
        /\ Cardinality({k \in 1..Len(Returned(t)) :
               Returned(t)[k].type = "readability"}) = 2

\* the global statements of a tree that are inside a function
GlobalsInFunctions(nodes) ==
    {i \in 1..Len(nodes) :
        /\ nodes[i].kind = "Global"
        /\ \E f \in AncestorsOrSelf(nodes, i) :
               f \in FunctionDefinitions(nodes)}

\* a best_practice suggestion of severity medium at the line
IsGlobalReport(sugg, lineno) ==
    /\ sugg.type = "best_practice"
    /\ sugg.severity = "medium"
    /\ sugg.line = Some(lineno)

\* C24: for every global statement inside a function the result has as
\* many best_practice/medium suggestions at the statement's line as there
\* are global statements on that line (one for each), whatever bare
\* handlers and mutable defaults the same function has
GlobalStatementsAreReported ==
    \A t \in Callers :
        Done(t) /\ code_snippet[t].ok =>
            \A i \in GlobalsInFunctions(tree[t]) :
                Cardinality({k \in 1..Len(Returned(t)) :
                    IsGlobalReport(Returned(t)[k], tree[t][i].lineno)})
                = Cardinality({j \in 1..Len(tree[t]) :
                      /\ tree[t][j].kind = "Global"
                      /\ tree[t][j].lineno = tree[t][i].lineno})

\* a call returned the suggestions for a function with a mutable default,
\* a bare handler and two global statements on its second line
GlobalReportedWithOthers ==
    \E t \in Callers :
        /\ Done(t)
        /\ code_snippet[t] = GlobalWithOthersSnippet
        /\ Cardinality({k \in 1..Len(Returned(t)) :
               IsGlobalReport(Returned(t)[k], 2)}) = 2
        /\ \E k \in 1..Len(Returned(t)) : IsBareReport(Returned(t)[k], 5)
        /\ \E k \in 1..Len(Returned(t)) :
               IsMutableDefaultReport(Returned(t)[k], <<"f">>, 1)

\* C25: in the /analyze-code handler, whatever other requests run analyze
\* on the shared analyzer while the request waits for the database, the
\* list its call of analyze returned stays the one computed for its own
\* code snippet, and so do the suggestions it persists, the summary and
\* the suggestions of its response
HandlerKeepsOwnSuggestions ==
    \A t \in Callers :
        handler[t] = "analyze_code" =>
            /\ pc[t] = "Done" =>
                   Returned(t) = FreshResult(code_snippet[t])
            /\ suggestions_json[t] # NoneValue =>
                   suggestions_json[t][1] = FreshResult(code_snippet[t])
            /\ (response[t] # NoneValue /\ response[t][1].status_code = 200)
                   => /\ response[t][1].suggestions
                         = FreshResult(code_snippet[t])
                      /\ response[t][1].summary
                         = Summary(FreshResult(code_snippet[t]))
            /\ \A k \in 1..Len(analysis_history) :
                   (response[t] # NoneValue
                    /\ response[t][1].status_code = 200
                    /\ response[t][1].analysis_id = k)
                   => analysis_history[k].suggestions
                      = FreshResult(code_snippet[t])

\* request 1 ran analyze, request 2 ran analyze on another text and
\* stored its row while request 1 waited, and request 1 then stored its
\* row and answered with suggestions
AnsweredAfterAnotherAnalyze ==
    /\ handler[1] = "analyze_code"
    /\ handler[2] = "analyze_code"
    /\ at[1] = "Responded"
    /\ pc[2] = "Done"
    /\ result[1][1] < result[2][1]
    /\ code_snippet[1] # code_snippet[2]
    /\ response[1] # NoneValue
    /\ response[1][1].status_code = 200
    /\ response[1][1].analysis_id = 2
    /\ response[1][1].suggestions # <<>>
    /\ Len(analysis_history) = 2
    /\ analysis_history[1].code_snippet = code_snippet[2].text

\* C26: in every request handler, a connection obtained from
\* get_db_connection is closed by the time the handler has answered, on
\* the success path and on every path where a database operation raised
EveryConnectionIsClosed ==
    \A t \in Callers :
        (at[t] = "Responded" /\ conn[t] # NoneValue)
            => connections[conn[t][1]].state = "closed"

\* C27: at most one connection pool is ever created and stored in
\* _db_pool, however the init_db of the startup and the get_db_connection
\* calls of concurrent requests interleave at their awaits: the creation
\* of init_db does not run a second time and no pool is overwritten
AtMostOnePoolIsCreated ==
    Len(pools) <= 1


\* the task objects of class CodeAnalysisTask
AnalysisTasks ==
    {k \in DOMAIN tasks : tasks[k].class = "CodeAnalysisTask"}

\* a call of execute on tasks[k] is under way
ExecuteUnderWay(k) ==
    \E f \in DOMAIN crew_locals :
        crew_locals[f].fn = "execute" /\ crew_locals[f].self = k

\* C28: when execute_all returns, the review is COMPLETED, every subtask
\* is COMPLETED, and the list returned holds one result for each subtask,
\* in the order of the subtasks.
ExecuteAllExecutesEverySubtask ==
    [][crew_at = "execute_all:206" /\ crew_at' # "execute_all:206" =>
          LET subtasks == tasks[Top.self].subtasks
          IN /\ tasks'[Top.self].status = "completed"
             /\ \A j \in DOMAIN subtasks :
                    tasks'[subtasks[j]].status = "completed"
             /\ Len(Top.results) = Len(subtasks)
             /\ \A j \in DOMAIN subtasks :
                    HasExecute(tasks[subtasks[j]]) =>
                        Some(Top.results[j]) = tasks'[subtasks[j]].result]_allVars

\* C28, the case reached: execute_all is about to return for a review
\* that has a documentation subtask and a test generation subtask
ReviewWithDocsAndTestsReturns ==
    /\ crew_at = "execute_all:206"
    /\ tasks[Top.self].include_docs
    /\ tasks[Top.self].include_tests
    /\ Len(tasks[Top.self].subtasks) = 3

\* the response of execute_task that says the task was executed
SaysExecuted ==
    /\ crew_response # NoneValue
    /\ "message" \in DOMAIN crew_response[1]
    /\ crew_response[1].message = "Task executed successfully"

\* C29: a response of the execute endpoint with the message "Task
\* executed successfully" carries a task whose status is "completed", for
\* each registered task type; a request for a type that is not registered
\* is answered with status 400 and no task is created or executed.
ExecuteEndpointCompletesTheTask ==
    /\ [](SaysExecuted => crew_response[1].task.status = "completed")
    /\ [][(/\ crew_at = "execute_task:158"
           /\ Top.task_type[1] \notin DOMAIN AVAILABLE_TASKS
           /\ crew_at' # crew_at)
          => /\ crew_response' # NoneValue
             /\ crew_response'[1] = TaskTypeNotFound(Top.task_type[1])
             /\ tasks' = tasks
             /\ crew_at' = "Idle"]_allVars

\* C29, the case reached: the endpoint has answered a request for a
\* documentation task
DocumentationRequestAnswered ==
    /\ SaysExecuted
    /\ crew_at = "Idle"
    /\ crew_response[1].task.class = "DocumentationTask"

\* C30: while no call of execute on it is under way, a CodeAnalysisTask
\* is PENDING or COMPLETED and has a result exactly when it is COMPLETED;
\* and its status never goes from COMPLETED to PENDING.
AnalysisTaskStatusBetweenCalls ==
    /\ [](\A k \in AnalysisTasks :
             ~ExecuteUnderWay(k) =>
                 /\ tasks[k].status \in {"pending", "completed"}
                 /\ tasks[k].result # NoneValue
                        <=> tasks[k].status = "completed")
    /\ [][\A k \in AnalysisTasks :
             tasks[k].status = "completed" =>
                 tasks'[k].status # "pending"]_allVars

\* C30, the case reached: the only CodeAnalysisTask was executed by a call
\* from outside, which returned its result, and has now been executed
\* again as the first subtask of a review whose execute_all goes on
ExecutedTwiceBetweenCalls ==
    /\ crew_at = "execute_all:201"
    /\ Top.i = 2
    /\ Len(Top.results) = 1
    /\ crew_response # NoneValue
    /\ "fn" \in DOMAIN crew_response[1]
    /\ crew_response[1].fn = "execute"
    /\ crew_response[1].returned = Top.results[1]
    /\ Cardinality(AnalysisTasks) = 1
    /\ \A k \in AnalysisTasks : tasks[k].status = "completed"

====
